---- MODULE Spec2Model ----
(***************************************************************************)
(* Model of the RDS Blue/Green instance-class change helper                *)
(* (src/rds_bg_resize.py and src/rds_bg_downgrade.py).                     *)
(*                                                                         *)
(* The tool is a single-threaded, synchronous program: an operator picks   *)
(* a menu action, the action calls the provider (describe / create /       *)
(* switchover / delete) and blocks in polling loops.  The provider is the  *)
(* environment: every describe call may answer with any status, with       *)
(* not-found, or with an unexpected provider error.                        *)
(*                                                                         *)
(* Units: the clock is in seconds and is counted from the start of the     *)
(* current menu action (the code only uses differences of time.time());    *)
(* CPU is in whole percent; memory is in MiB.                              *)
(***************************************************************************)
EXTENDS Integers, Sequences, FiniteSets, TLC

\* ---------------------------------------------------------------------------
\* Bounds of the model
\* ---------------------------------------------------------------------------

\* wait_switch_ready is explored with timeout_min in 1..MaxTimeoutMin
MaxTimeoutMin == 2

\* a second poll interval (seconds) that does not divide the timeout
AltPoll == 45

\* time.sleep may return late by up to this many seconds
MaxOversleep == 20

\* polls explored in the waits that have no deadline
MaxPolls == 3

\* member nodes of a cluster selected for deletion
MaxMembers == 2

\* instances the provider lists to the rollback search
MaxInsts == 2

\* clusters the provider lists to the rollback search
MaxClus == 1

\* instance snapshots in one answer of describe_db_snapshots
MaxSnaps == 2

\* cluster snapshots in one answer of describe_db_cluster_snapshots
MaxCluSnaps == 1

\* creation times of snapshots are 1..MaxSnapTime
MaxSnapTime == 2

\* members in the DBClusterMembers list of a cluster description
MaxDescMembers == 2

\* ---------------------------------------------------------------------------
\* Program constants
\* ---------------------------------------------------------------------------

BG_SWITCH_POLL_INTERVAL == 30

\* time.sleep(10) of switch_over
SWITCH_POLL == 10

\* time.sleep(5) of delete_bg_deployment_record
RECORD_POLL == 5

\* wait_deleted(poll=15), wait_instance_deleted(poll=15)
DELETE_POLL == 15

\* rds_bg_downgrade.py: wait_cluster_deleted(poll=20)
CLUSTER_DELETE_POLL == 20

\* wait_snapshot_progress(poll=DEFAULT_POLL_INTERVAL)
DEFAULT_POLL_INTERVAL == 10

\* MiB per GiB (the code counts bytes: 1024 ** 3)
GIB == 1024

CPU_WARNING_THRESHOLD == 40

CPU_CRITICAL_THRESHOLD == 80

MEMORY_WARNING_GIB == 1

\* MEMORY_CRITICAL_GIB = 0.5, in MiB
MEMORY_CRITICAL_MIB == GIB \div 2

COMBINED_CPU_THRESHOLD == 30

COMBINED_MEMORY_THRESHOLD == 2 * GIB

\* rds_bg_downgrade.py: free_mem < 1.5 * 1024**3
DOWNGRADE_MEMORY_WARNING == (3 * GIB) \div 2

\* ---------------------------------------------------------------------------
\* Provider answers to describe_blue_green_deployments
\* ---------------------------------------------------------------------------

Statuses ==
    { "PROVISIONING", "AVAILABLE", "SWITCH_READY", "SWITCHOVER_IN_PROGRESS",
      "SWITCHOVER_COMPLETED", "SWITCHOVER_FAILED", "DELETED" }

\* bg_status returned None (BlueGreenDeploymentNotFoundFault)
NOT_FOUND == "NOT_FOUND"

\* bg_status re-raised a ClientError with any other code
PROVIDER_ERROR == "PROVIDER_ERROR"

Responses == Statuses \cup {NOT_FOUND, PROVIDER_ERROR}

\* if status in ("SWITCH_READY", "AVAILABLE")
ReadyStatuses == {"SWITCH_READY", "AVAILABLE"}

\* variant: DELETED is not recognised as terminal
WsrTerminalStatuses_NoDeleted == {"SWITCHOVER_COMPLETED", "SWITCHOVER_FAILED"}

\* wait_switch_ready: if status in ("SWITCHOVER_COMPLETED", "SWITCHOVER_FAILED", "DELETED")
WsrTerminalStatuses == {"SWITCHOVER_COMPLETED", "SWITCHOVER_FAILED", "DELETED"}

\* variant: DELETED does not raise
SwitchFailedStatuses_NoDeleted == {"SWITCHOVER_FAILED"}

\* switch_over: if st in ("SWITCHOVER_FAILED", "DELETED"): raise
SwitchFailedStatuses == {"SWITCHOVER_FAILED", "DELETED"}

Scripts == {"resize", "downgrade"}

PollChoices == {BG_SWITCH_POLL_INTERVAL, AltPoll}

VARIABLES
    script,        \* which of the two scripts is running
    mode,          \* "new" (new flow menu) or "resume" (resume menu)
    flow,          \* the menu action in progress
    pc,            \* position of the single thread of control
    now,           \* time.time(), seconds since the menu action began
    start,         \* wait_switch_ready: start
    deadline,      \* wait_switch_ready: deadline
    poll,          \* wait_switch_ready: poll
    last,          \* wait_switch_ready: last
    last_pct,      \* wait_snapshot_progress: last_pct
    status,        \* the answer of the most recent describe call of a wait
    ready,         \* value returned by wait_switch_ready ("none" before it returns)
    metrics,       \* the sample returned by the most recent prechecks call
    ok,            \* value returned by the most recent print_precheck_summary
    current_class, \* main: current_class
    target_class,  \* main / rollback: target_class
    rtype,         \* delete_old_resource: typ of the selected candidate
    member_ids,    \* delete_old_resource: len(member_ids), -1 before it is read
    members,       \* delete_old_resource: members of the cluster still to delete
    wtarget,       \* delete_old_resource: which resource wait_deleted waits for
    raised,        \* the exception that ended the process, if any
    waitKind,      \* which blocking wait the history below belongs to
    polls,         \* number of describe calls made by that wait
    polled,        \* the answers those calls received, in order
    out,           \* lines printed by the call most recently entered
    trail,         \* the steps of the menu action executed so far, in order
    calls,         \* provider calls other than describe issued by the menu action
    identifier,    \* main: identifier, the resource the operator works on
    base_identifier, \* rollback_with_reverse_bg: base_identifier
    listing,       \* find_old_resource_like: what the provider listed
    old,           \* rollback_with_reverse_bg: old, the result of the search
    probe,         \* the identifier the most recent prechecks call was given
    source,        \* the identifier the most recent create_bg call was given
    snaps,         \* latest_pre_resize_snapshot_id: what the provider listed
    latest,        \* latest_pre_resize_snapshot_id: the id it returned
    lookup,        \* is_cluster: what the provider answered to the two lookups
    resolved,      \* is_cluster: how the call ended
    desc,          \* prechecks: desc, the description is_cluster returned
    queried,       \* prechecks: the get_metric_avg calls made, in order
    snap_id        \* create_snapshot: snap_id

vars == << script, mode, flow, pc, now, start, deadline, poll, last, last_pct, status,
           ready, metrics, ok, current_class, target_class, rtype, member_ids,
           members, wtarget, raised, waitKind, polls, polled, out, trail, calls,
           identifier, base_identifier, listing, old, probe, source, snaps, latest,
           lookup, resolved, desc, queried, snap_id >>

\* locals of wait_switch_ready
wsrLoc == << start, deadline, poll, last >>

\* history of the wait in progress
hist == << waitKind, polls, polled >>

\* results of the admission checks
gateV == << metrics, ok >>

classV == << current_class, target_class >>

delV == << rtype, member_ids, members, wtarget >>

\* the rollback search and the arguments it determines
rbV == << identifier, base_identifier, listing, old, probe, source, snaps, latest,
          lookup, resolved, desc, queried, snap_id >>

\* the telemetry lookup of prechecks called on its own
telV == << desc, queried >>

\* the resolver, prechecks and the snapshot naming called on their own
resV == << lookup, resolved, desc, queried, snap_id >>

\* the snapshot lookup of the rollback fallback
snapV == << snaps, latest >>

\* ---------------------------------------------------------------------------
\* Helpers
\* ---------------------------------------------------------------------------

Ceil(a, b) == (a + b - 1) \div b

RECURSIVE Collapse(_)
\* a sequence with every run of equal consecutive elements reduced to one
Collapse(s) ==
    IF Len(s) <= 1 THEN s
    ELSE IF s[1] = s[2] THEN Collapse(Tail(s))
         ELSE <<s[1]>> \o Collapse(Tail(s))

\* a printed line: what kind of line it is, its text, and a number shown in it
Line(kind, text) == << kind, text, 0 >>

\* a Python bool, as printed
Bool(b) == IF b THEN "True" ELSE "False"

\* the process has ended: by an uncaught exception (traceback), by
\* KeyboardInterrupt caught at module level ("Aborted by user"), or by sys.exit
Ended == pc \in {"crashed", "aborted", "exited"}

NoException == << "none", "" >>

\* an uncaught exception of type t carrying detail d ends the process
Raise(t, d) ==
    /\ raised' = << t, d >>
    /\ pc' = "crashed"

\* ---------------------------------------------------------------------------
\* is_cluster
\* ---------------------------------------------------------------------------

\* what describe_db_clusters(DBClusterIdentifier=identifier) answers: a
\* cluster, an empty list, or a ClientError with one of these codes
ClusterAnswers ==
    { "found", "empty", "DBClusterNotFoundFault", "InvalidDBClusterStateFault",
      "OtherError" }

\* what describe_db_instances(DBInstanceIdentifier=identifier) answers
InstanceAnswers == { "found", "empty", "DBInstanceNotFound", "OtherError" }

NoLookup == [clu |-> "none", inst |-> "none"]

NotResolved == [outcome |-> "none", is_clu |-> "none", asked |-> << >>]

\* how a call ends: "returned" with is_clu and the descriptor of that lookup,
\* "exit" (message, sys.exit(2)), or an exception that propagates
Resolved(outcome, is_clu, asked) ==
    [outcome |-> outcome, is_clu |-> is_clu, asked |-> asked]

\* the single-node half of is_cluster
IsClusterInstanceLookup(scr, a) ==
    LET asked == << "clusters", "instances" >>
    IN  IF a.inst = "found" THEN Resolved("returned", "False", asked)
        ELSE IF a.inst = "empty"
        THEN (IF scr = "resize" THEN Resolved("IndexError", "none", asked)
              ELSE Resolved("exit", "none", asked))
        ELSE IF a.inst = "DBInstanceNotFound" THEN Resolved("exit", "none", asked)
        ELSE Resolved("ClientError", "none", asked)

\* is_cluster(rds, identifier): rds_bg_resize.py indexes the answer's list
\* without looking at its length, rds_bg_downgrade.py tests it first
is_cluster(scr, a) ==
    IF a.clu = "found" THEN Resolved("returned", "True", << "clusters" >>)
    ELSE IF a.clu = "empty" /\ scr = "resize"
    THEN Resolved("IndexError", "none", << "clusters" >>)
    ELSE IF a.clu \in {"empty", "DBClusterNotFoundFault", "InvalidDBClusterStateFault"}
    THEN IsClusterInstanceLookup(scr, a)
    ELSE Resolved("ClientError", "none", << "clusters" >>)

\* ---------------------------------------------------------------------------
\* Telemetry and the Health Gate
\* ---------------------------------------------------------------------------

\* Optional[float]: << >> is None (no datapoint in the window), <<v>> is v
None == << >>

Some(v) == << v >>

CpuValues == {30, 31, 35, 40, 41, 81}

MemValues == {511, 1023, 1024, 1229, 1536, 2047, 2048}

ConnValues == {0, 5}

Opt(S) == {None} \cup {Some(v) : v \in S}

\* the dictionary returned by prechecks (the IOPS entries are only printed)
Samples ==
    [ cpu : Opt(CpuValues), free_mem : Opt(MemValues), conns : Opt(ConnValues) ]

\* the identifier of a cluster, and the identifiers of member nodes
GroupId == << "g" >>

NodeIds == { << "n", "1" >>, << "n", "2" >> }

\* m.get("IsClusterWriter"): True, False, or the key is missing
WriterFlags == {"True", "False", "none"}

\* the entries of DBClusterMembers
ClusterMembers == [ id : NodeIds, writer : WriterFlags ]

RECURSIVE MemberLists(_)
\* the DBClusterMembers lists of at most n entries
MemberLists(n) ==
    IF n = 0 THEN { << >> }
    ELSE LET shorter == MemberLists(n - 1)
         IN  shorter \cup { Append(l, m) : l \in { x \in shorter : Len(x) = n - 1 },
                                           m \in ClusterMembers }

\* the (is_clu, desc) pairs is_cluster returns: a single node, or a cluster
\* with its member list
Descriptions ==
    { [is_clu |-> "False", id |-> n, members |-> << >>] : n \in NodeIds }
    \cup { [is_clu |-> "True", id |-> GroupId, members |-> l] :
                l \in MemberLists(MaxDescMembers) }

NoDescription == [is_clu |-> "none", id |-> << >>, members |-> << >>]

\* variant: the first member is taken, writer or not
writer_instance_id_FirstMember(member_list) ==
    IF member_list = << >> THEN None ELSE Some(member_list[1].id)

RECURSIVE writer_instance_id(_)
\* the DBInstanceIdentifier of the first member whose IsClusterWriter is
\* truthy; None stands for the RuntimeError of rds_bg_downgrade.py and for
\* writer = None of rds_bg_resize.py
writer_instance_id(member_list) ==
    IF member_list = << >> THEN None
    ELSE IF member_list[1].writer = "True" THEN Some(member_list[1].id)
    ELSE writer_instance_id(Tail(member_list))

\* inst_id of prechecks, None when it raises RuntimeError instead
PrechecksInstId(d) ==
    IF d.is_clu = "True" THEN writer_instance_id(d.members) ELSE Some(d.id)

\* the message of that RuntimeError
WriterNotFound(scr) ==
    IF scr = "resize" THEN "Writer instance not found"
    ELSE "Writer instance not found in cluster"

\* the metrics prechecks fetches, in the order of the dictionary
PRECHECK_METRICS ==
    << "CPUUtilization", "FreeableMemory", "ReadIOPS", "WriteIOPS", "DatabaseConnections" >>

\* the get_metric_avg calls of prechecks: metric, dim_name, dim_value
PrechecksQueries(inst_id) ==
    [ i \in 1..Len(PRECHECK_METRICS) |->
        << PRECHECK_METRICS[i], "DBInstanceIdentifier", inst_id >> ]

\* metrics.get(k) or 0.0
OrZero(v) == IF v = None THEN 0 ELSE v[1]

\* variant: the CPU rule fires at the threshold itself
PrecheckWarnings_CpuInclusive(m, scr) ==
    LET cpu == OrZero(m.cpu)
        free_mem == OrZero(m.free_mem)
        conns == OrZero(m.conns)
        memLimit == IF scr = "resize" THEN MEMORY_WARNING_GIB * GIB
                                      ELSE DOWNGRADE_MEMORY_WARNING
    IN  (IF cpu >= CPU_WARNING_THRESHOLD
            THEN << Line("warning", "cpu") >> ELSE << >>)
        \o (IF free_mem < memLimit
            THEN << Line("warning", "memory") >> ELSE << >>)
        \o (IF conns > 0 /\ cpu > COMBINED_CPU_THRESHOLD
                /\ free_mem < COMBINED_MEMORY_THRESHOLD
            THEN << Line("warning", "combined") >> ELSE << >>)

\* the warnings print_precheck_summary prints, in order, one per failed rule
PrecheckWarnings(m, scr) ==
    LET cpu == OrZero(m.cpu)
        free_mem == OrZero(m.free_mem)
        conns == OrZero(m.conns)
        memLimit == IF scr = "resize" THEN MEMORY_WARNING_GIB * GIB
                                      ELSE DOWNGRADE_MEMORY_WARNING
    IN  (IF cpu > CPU_WARNING_THRESHOLD
            THEN << Line("warning", "cpu") >> ELSE << >>)
        \o (IF free_mem < memLimit
            THEN << Line("warning", "memory") >> ELSE << >>)
        \o (IF conns > 0 /\ cpu > COMBINED_CPU_THRESHOLD
                /\ free_mem < COMBINED_MEMORY_THRESHOLD
            THEN << Line("warning", "combined") >> ELSE << >>)

\* the value print_precheck_summary returns: ok stays True iff no rule fired
print_precheck_summary(m, scr) == PrecheckWarnings(m, scr) = << >>

\* everything print_precheck_summary prints after the metric dump
PrecheckLines(m, scr) ==
    PrecheckWarnings(m, scr)
    \o << Line("checks_pass", Bool(print_precheck_summary(m, scr))) >>


\* ---------------------------------------------------------------------------
\* Suitability Projector
\* ---------------------------------------------------------------------------

\* class -> << vCPUs, memory in GiB >>
INSTANCE_SPECS ==
    ("db.t3.micro" :> <<2, 1>>) @@ ("db.t3.small" :> <<2, 2>>) @@ ("db.t3.medium" :> <<2, 4>>) @@
       ("db.t3.large" :> <<2, 8>>) @@ ("db.t3.xlarge" :> <<4, 16>>) @@ ("db.t3.2xlarge" :> <<8, 32>>) @@
       ("db.t4g.micro" :> <<2, 1>>) @@ ("db.t4g.small" :> <<2, 2>>) @@ ("db.t4g.medium" :> <<2, 4>>) @@
       ("db.t4g.large" :> <<2, 8>>) @@ ("db.t4g.xlarge" :> <<4, 16>>) @@ ("db.t4g.2xlarge" :> <<8, 32>>) @@
       ("db.m5.large" :> <<2, 8>>) @@ ("db.m5.xlarge" :> <<4, 16>>) @@ ("db.m5.2xlarge" :> <<8, 32>>) @@
       ("db.m5.4xlarge" :> <<16, 64>>) @@ ("db.m5.8xlarge" :> <<32, 128>>) @@ ("db.m5.12xlarge" :> <<48, 192>>) @@
       ("db.m5.16xlarge" :> <<64, 256>>) @@ ("db.m5.24xlarge" :> <<96, 384>>) @@ ("db.m6g.large" :> <<2, 8>>) @@
       ("db.m6g.xlarge" :> <<4, 16>>) @@ ("db.m6g.2xlarge" :> <<8, 32>>) @@ ("db.m6g.4xlarge" :> <<16, 64>>) @@
       ("db.m6g.8xlarge" :> <<32, 128>>) @@ ("db.m6g.12xlarge" :> <<48, 192>>) @@ ("db.m6g.16xlarge" :> <<64, 256>>) @@
       ("db.m6i.large" :> <<2, 8>>) @@ ("db.m6i.xlarge" :> <<4, 16>>) @@ ("db.m6i.2xlarge" :> <<8, 32>>) @@
       ("db.m6i.4xlarge" :> <<16, 64>>) @@ ("db.m6i.8xlarge" :> <<32, 128>>) @@ ("db.m6i.12xlarge" :> <<48, 192>>) @@
       ("db.m6i.16xlarge" :> <<64, 256>>) @@ ("db.m6i.24xlarge" :> <<96, 384>>) @@ ("db.m6i.32xlarge" :> <<128, 512>>) @@
       ("db.r5.large" :> <<2, 16>>) @@ ("db.r5.xlarge" :> <<4, 32>>) @@ ("db.r5.2xlarge" :> <<8, 64>>) @@
       ("db.r5.4xlarge" :> <<16, 128>>) @@ ("db.r5.8xlarge" :> <<32, 256>>) @@ ("db.r5.12xlarge" :> <<48, 384>>) @@
       ("db.r5.16xlarge" :> <<64, 512>>) @@ ("db.r5.24xlarge" :> <<96, 768>>) @@ ("db.r6g.large" :> <<2, 16>>) @@
       ("db.r6g.xlarge" :> <<4, 32>>) @@ ("db.r6g.2xlarge" :> <<8, 64>>) @@ ("db.r6g.4xlarge" :> <<16, 128>>) @@
       ("db.r6g.8xlarge" :> <<32, 256>>) @@ ("db.r6g.12xlarge" :> <<48, 384>>) @@ ("db.r6g.16xlarge" :> <<64, 512>>)

\* a class the provider offers that the table does not list
UnlistedClass == "db.x2g.large"

\* the classes the menu actions are explored with
FlowClasses ==
    { "db.t3.micro", "db.t3.small", "db.t3.medium", "db.t3.large", "db.t3.xlarge",
      UnlistedClass }

\* INSTANCE_SPECS.get(c) found an entry
Listed(c) == c \in DOMAIN INSTANCE_SPECS

\* variant: only a loss of vCPUs counts as a downgrade
IsDowngrade_CpuOnly(cur, tgt) == INSTANCE_SPECS[tgt][1] < INSTANCE_SPECS[cur][1]

\* is_downgrade = tgt_vcpu < curr_vcpu or tgt_mem < curr_mem
IsDowngrade(cur, tgt) ==
    \/ INSTANCE_SPECS[tgt][1] < INSTANCE_SPECS[cur][1]
    \/ INSTANCE_SPECS[tgt][2] < INSTANCE_SPECS[cur][2]

\* projected_cpu = cpu * (curr_vcpu / tgt_vcpu) > limit, without the division
ProjectedCpuAbove(cur, tgt, m, limit) ==
    LET cpu == OrZero(m.cpu)
        curr_vcpu == INSTANCE_SPECS[cur][1]
        tgt_vcpu == INSTANCE_SPECS[tgt][1]
    IN  IF tgt_vcpu > 0 THEN cpu * curr_vcpu > limit * tgt_vcpu ELSE cpu > limit

\* variant: the memory change is taken with the opposite sign
ProjectedMem_Swapped(cur, tgt, m) ==
    OrZero(m.free_mem) + (INSTANCE_SPECS[cur][2] - INSTANCE_SPECS[tgt][2]) * GIB

\* projected_mem = free_mem_gib + (tgt_mem - curr_mem), in MiB
ProjectedMem(cur, tgt, m) ==
    OrZero(m.free_mem) + (INSTANCE_SPECS[tgt][2] - INSTANCE_SPECS[cur][2]) * GIB

\* the list issues of check_target_class_suitability
SuitabilityIssues(cur, tgt, m) ==
    (IF ProjectedCpuAbove(cur, tgt, m, CPU_CRITICAL_THRESHOLD)
        THEN << Line("issue", "cpu") >> ELSE << >>)
    \o (IF ProjectedMem(cur, tgt, m) < MEMORY_CRITICAL_MIB
        THEN << Line("issue", "memory") >> ELSE << >>)

\* the list warnings of check_target_class_suitability
SuitabilityWarnings(cur, tgt, m) ==
    (IF /\ ~ProjectedCpuAbove(cur, tgt, m, CPU_CRITICAL_THRESHOLD)
        /\ ProjectedCpuAbove(cur, tgt, m, CPU_WARNING_THRESHOLD)
        /\ IsDowngrade(cur, tgt)
        THEN << Line("warning", "cpu") >> ELSE << >>)
    \o (IF /\ ~(ProjectedMem(cur, tgt, m) < MEMORY_CRITICAL_MIB)
           /\ ProjectedMem(cur, tgt, m) < MEMORY_WARNING_GIB * GIB
           /\ IsDowngrade(cur, tgt)
        THEN << Line("warning", "memory") >> ELSE << >>)

\* variant: a class missing from the table blocks the change
check_target_class_suitability_Strict(cur, tgt, m) ==
    IF ~(Listed(cur) /\ Listed(tgt)) THEN FALSE
    ELSE SuitabilityIssues(cur, tgt, m) = << >>

\* the value check_target_class_suitability returns
check_target_class_suitability(cur, tgt, m) ==
    IF ~(Listed(cur) /\ Listed(tgt)) THEN TRUE
    ELSE SuitabilityIssues(cur, tgt, m) = << >>

\* what check_target_class_suitability prints after its header
SuitabilityLines(cur, tgt, m) ==
    IF ~(Listed(cur) /\ Listed(tgt)) THEN << Line("msg", "specs not in database") >>
    ELSE IF SuitabilityIssues(cur, tgt, m) # << >>
    THEN SuitabilityIssues(cur, tgt, m)
    ELSE SuitabilityWarnings(cur, tgt, m) \o << Line("msg", "Target appears suitable") >>

\* ---------------------------------------------------------------------------
\* wait_switch_ready
\* ---------------------------------------------------------------------------

\* where wait_switch_ready returns to, by caller
WsrReturnPc == IF flow = "rollback" THEN "rb_after_wait" ELSE "create_report"

\* print banner; start = time.time(); last = ""; deadline = start + timeout_min * 60
WsrEnter ==
    /\ pc = "wsr_enter"
    /\ \E p \in PollChoices, timeout_min \in 1..MaxTimeoutMin :
        /\ poll' = p
        /\ deadline' = now + timeout_min * 60
    /\ start' = now
    /\ last' = ""
    /\ ready' = "none"
    /\ status' = "none"
    /\ waitKind' = "ready"
    /\ polls' = 0
    /\ polled' = << >>
    /\ out' = << Line("banner", "Waiting for SWITCH_READY") >>
    /\ trail' = Append(trail, "wait_switch_ready")
    /\ pc' = "wsr_test"
    /\ UNCHANGED << rbV, script, mode, flow, now, last_pct, gateV, classV, delV, raised, calls >>

\* variant: the loop is still entered at the deadline itself
WsrBeforeDeadline_Inclusive(t, d) == t <= d

\* the loop condition time.time() < deadline
WsrBeforeDeadline(t, d) == t < d

\* variant: on timeout the deployment is deleted before returning
WsrTest_DeletesOnTimeout ==
    /\ pc = "wsr_test"
    /\ IF WsrBeforeDeadline(now, deadline)
       THEN /\ pc' = "wsr_poll"
            /\ UNCHANGED << ready, out, calls >>
       ELSE /\ ready' = "False"
            /\ out' = Append(out, Line("msg", "Timed out while waiting"))
            /\ calls' = Append(calls, "delete_blue_green_deployment")
            /\ pc' = WsrReturnPc
    /\ UNCHANGED << rbV, script, mode, flow, now, wsrLoc, last_pct, status, gateV, classV,
                    delV, raised, hist, trail >>

\* while time.time() < deadline: ...   else: print("Timed out while waiting"); return False
WsrTest ==
    /\ pc = "wsr_test"
    /\ IF WsrBeforeDeadline(now, deadline)
       THEN /\ pc' = "wsr_poll"
            /\ UNCHANGED << ready, out >>
       ELSE /\ ready' = "False"
            /\ out' = Append(out, Line("msg", "Timed out while waiting"))
            /\ pc' = WsrReturnPc
    /\ UNCHANGED << rbV, script, mode, flow, now, wsrLoc, last_pct, status, gateV, classV,
                    delV, raised, hist, trail, calls >>

\* variant: the status line is printed on every poll
WsrLines_EveryPoll(r, prev, elapsed) ==
    << << "status_elapsed", r, elapsed >> >>
    \o (IF r \in WsrTerminalStatuses THEN << Line("terminal", r) >> ELSE << >>)

\* the lines one loop body prints for status r when the previous one was prev
WsrLines(r, prev, elapsed) ==
    (IF r # prev THEN << << "status_elapsed", r, elapsed >> >> ELSE << >>)
    \o (IF r \in WsrTerminalStatuses THEN << Line("terminal", r) >> ELSE << >>)

\* the value the loop body returns for a ready or terminal status r
WsrVerdict(r) ==
    IF r \in ReadyStatuses THEN "True" ELSE Bool(r = "SWITCHOVER_COMPLETED")

\* one loop body: s = bg_status(rds, bg_id) ... up to, not including, time.sleep(poll)
WsrPoll ==
    /\ pc = "wsr_poll"
    /\ \E r \in Responses :
        /\ status' = r
        /\ polls' = polls + 1
        /\ polled' = Append(polled, r)
        /\ IF r = PROVIDER_ERROR
           THEN /\ Raise("ClientError", "describe_blue_green_deployments")
                /\ UNCHANGED << last, ready, out >>
           ELSE IF r = NOT_FOUND
           THEN /\ ready' = "False"
                /\ out' = Append(out, Line("msg", "Blue/Green deployment not found"))
                /\ pc' = WsrReturnPc
                /\ UNCHANGED << last, raised >>
           ELSE /\ last' = r
                /\ out' = out \o WsrLines(r, last, (now - start) \div 60)
                /\ IF r \in ReadyStatuses \cup WsrTerminalStatuses
                   THEN /\ ready' = WsrVerdict(r)
                        /\ pc' = WsrReturnPc
                   ELSE /\ pc' = "wsr_sleep"
                        /\ UNCHANGED ready
                /\ UNCHANGED raised
    /\ UNCHANGED << rbV, script, mode, flow, now, start, deadline, poll, last_pct, gateV,
                    classV, delV, waitKind, trail, calls >>

\* time.sleep(poll)
WsrSleep ==
    /\ pc = "wsr_sleep"
    /\ \E late \in {0, MaxOversleep} : now' = now + poll + late
    /\ pc' = "wsr_test"
    /\ UNCHANGED << rbV, script, mode, flow, wsrLoc, last_pct, status, ready, gateV, classV,
                    delV, raised, hist, out, trail, calls >>

\* ---------------------------------------------------------------------------
\* switch_over
\* ---------------------------------------------------------------------------

\* print banner; rds.switchover_blue_green_deployment(...), which the provider
\* may reject with a ClientError
SwEnter ==
    /\ pc = "sw_enter"
    /\ out' = << Line("banner", "Switching Blue/Green") >>
    /\ trail' = Append(trail, "switch_over")
    /\ calls' = Append(calls, "switchover_blue_green_deployment")
    /\ waitKind' = "switch"
    /\ polls' = 0
    /\ polled' = << >>
    /\ status' = "none"
    /\ \E accepted \in BOOLEAN :
        IF accepted
        THEN pc' = "sw_poll" /\ UNCHANGED raised
        ELSE Raise("ClientError", "switchover_blue_green_deployment")
    /\ UNCHANGED << rbV, script, mode, flow, now, wsrLoc, last_pct, ready, gateV, classV, delV >>

\* the lines one loop body of switch_over prints for status st
SwLines(st) ==
    << Line("status", st) >>
    \o (IF st = "SWITCHOVER_COMPLETED"
        THEN << Line("msg", "Switchover completed") >> ELSE << >>)

\* one loop body of switch_over, up to, not including, time.sleep(10)
SwPoll ==
    /\ pc = "sw_poll"
    /\ polls < MaxPolls
    /\ \E r \in Responses :
        /\ status' = r
        /\ polls' = polls + 1
        /\ polled' = Append(polled, r)
        /\ IF r = PROVIDER_ERROR
           THEN /\ Raise("ClientError", "describe_blue_green_deployments")
                /\ UNCHANGED out
           ELSE IF r = NOT_FOUND
           THEN /\ out' = Append(out, Line("msg", "Blue/Green deployment not found"))
                /\ pc' = "verify"
                /\ UNCHANGED raised
           ELSE /\ out' = out \o SwLines(r)
                /\ IF r = "SWITCHOVER_COMPLETED"
                   THEN pc' = "verify" /\ UNCHANGED raised
                   ELSE IF r \in SwitchFailedStatuses
                   THEN Raise("RuntimeError", r)
                   ELSE pc' = "sw_sleep" /\ UNCHANGED raised
    /\ UNCHANGED << rbV, script, mode, flow, now, wsrLoc, last_pct, ready, gateV, classV,
                    delV, waitKind, trail, calls >>

\* variant: the command is sent again before every further poll
SwSleep_Reissues ==
    /\ pc = "sw_sleep"
    /\ now' = now + SWITCH_POLL
    /\ calls' = Append(calls, "switchover_blue_green_deployment")
    /\ pc' = "sw_poll"
    /\ UNCHANGED << rbV, script, mode, flow, wsrLoc, last_pct, status, ready, gateV, classV,
                    delV, raised, hist, out, trail >>

\* time.sleep(10)
SwSleep ==
    /\ pc = "sw_sleep"
    /\ now' = now + SWITCH_POLL
    /\ pc' = "sw_poll"
    /\ UNCHANGED << rbV, script, mode, flow, wsrLoc, last_pct, status, ready, gateV, classV,
                    delV, raised, hist, out, trail, calls >>

\* ---------------------------------------------------------------------------
\* delete_bg_deployment_record
\* ---------------------------------------------------------------------------

\* variant: the function returns as soon as the delete call has returned
DrEnter_NoWait ==
    /\ pc = "dr_enter"
    /\ out' = << Line("banner", "Deleting Blue/Green deployment record") >>
    /\ trail' = Append(trail, "delete_bg_deployment_record")
    /\ calls' = Append(calls, "delete_blue_green_deployment")
    /\ waitKind' = "record"
    /\ polls' = 0
    /\ polled' = << >>
    /\ status' = "none"
    /\ \E accepted \in BOOLEAN :
        IF accepted
        THEN pc' \in {"dr_poll", "pause"} /\ UNCHANGED raised
        ELSE Raise("ClientError", "delete_blue_green_deployment")
    /\ UNCHANGED << rbV, script, mode, flow, now, wsrLoc, last_pct, ready, gateV, classV, delV >>

\* print banner; rds.delete_blue_green_deployment(...), which the provider may
\* reject with a ClientError
DrEnter ==
    /\ pc = "dr_enter"
    /\ out' = << Line("banner", "Deleting Blue/Green deployment record") >>
    /\ trail' = Append(trail, "delete_bg_deployment_record")
    /\ calls' = Append(calls, "delete_blue_green_deployment")
    /\ waitKind' = "record"
    /\ polls' = 0
    /\ polled' = << >>
    /\ status' = "none"
    /\ \E accepted \in BOOLEAN :
        IF accepted
        THEN pc' = "dr_poll" /\ UNCHANGED raised
        ELSE Raise("ClientError", "delete_blue_green_deployment")
    /\ UNCHANGED << rbV, script, mode, flow, now, wsrLoc, last_pct, ready, gateV, classV, delV >>

\* variant: a record reported with status DELETED counts as gone
DrGone_OrDeleted(r) == r \in {NOT_FOUND, "DELETED"}

\* delete_bg_deployment_record: if s is None
DrGone(r) == r = NOT_FOUND

\* variant: "still present" is printed only for a record that is not DELETED
DrLines_Quiet(r) ==
    IF DrGone(r) THEN << Line("msg", "Deleted") >>
    ELSE IF r = "DELETED" THEN << >>
    ELSE << Line("msg", "still present") >>

\* the line one loop body of delete_bg_deployment_record prints for answer r
DrLines(r) ==
    IF DrGone(r) THEN << Line("msg", "Deleted") >>
    ELSE << Line("msg", "still present") >>

\* one loop body of delete_bg_deployment_record, up to time.sleep(5)
DrPoll ==
    /\ pc = "dr_poll"
    /\ polls < MaxPolls
    /\ \E r \in Responses :
        /\ status' = r
        /\ polls' = polls + 1
        /\ polled' = Append(polled, r)
        /\ IF r = PROVIDER_ERROR
           THEN /\ Raise("ClientError", "describe_blue_green_deployments")
                /\ UNCHANGED out
           ELSE /\ out' = out \o DrLines(r)
                /\ pc' = IF DrGone(r) THEN "pause" ELSE "dr_sleep"
                /\ UNCHANGED raised
    /\ UNCHANGED << rbV, script, mode, flow, now, wsrLoc, last_pct, ready, gateV, classV,
                    delV, waitKind, trail, calls >>

\* time.sleep(5)
DrSleep ==
    /\ pc = "dr_sleep"
    /\ now' = now + RECORD_POLL
    /\ pc' = "dr_poll"
    /\ UNCHANGED << rbV, script, mode, flow, wsrLoc, last_pct, status, ready, gateV, classV,
                    delV, raised, hist, out, trail, calls >>

\* ---------------------------------------------------------------------------
\* delete_old_resource and wait_deleted
\* (rds_bg_downgrade.py: wait_instance_deleted, wait_cluster_deleted)
\* ---------------------------------------------------------------------------

\* answers of describe_db_instances / describe_db_clusters for one identifier
PRESENT == "PRESENT"

ResourceResponses == {PRESENT, NOT_FOUND, PROVIDER_ERROR}

\* entry of wait_deleted for the resource named by tgt
WdBegin(tgt) ==
    /\ wtarget' = tgt
    /\ waitKind' = "resource"
    /\ polls' = 0
    /\ polled' = << >>
    /\ status' = "none"
    /\ out' = << Line("banner", "Waiting for resource to delete") >>
    /\ pc' = "wd_poll"

\* list the resources, build candidates, ask the operator for a selection
DoEnter ==
    /\ pc = "do_enter"
    /\ trail' = Append(trail, "delete_old_resource")
    /\ \E answer \in {"error", "no_candidates", "cancel", "instance", "cluster"} :
        IF answer = "error"
        THEN /\ Raise("ClientError", "describe_db_instances")
             /\ UNCHANGED << rtype, out >>
        ELSE IF answer \in {"no_candidates", "cancel"}
        THEN /\ out' = << Line("msg", answer) >>
             /\ pc' = "pause"
             /\ UNCHANGED << rtype, raised >>
        ELSE /\ rtype' = answer
             /\ out' = << Line("banner", "Deleting " \o answer) >>
             /\ pc' = IF answer = "instance" THEN "do_instance" ELSE "do_cluster"
             /\ UNCHANGED raised
    /\ UNCHANGED << rbV, script, mode, flow, now, wsrLoc, last_pct, status, ready, gateV,
                    classV, member_ids, members, wtarget, hist, calls >>

\* typ == "instance": rds.delete_db_instance(rid); wait_deleted(rds, "instance", rid)
DoInstance ==
    /\ pc = "do_instance"
    /\ calls' = Append(calls, "delete_db_instance")
    /\ \E accepted \in BOOLEAN :
        IF accepted
        THEN WdBegin("selected") /\ UNCHANGED raised
        ELSE /\ Raise("ClientError", "delete_db_instance")
             /\ UNCHANGED << wtarget, hist, status, out >>
    /\ UNCHANGED << rbV, script, mode, flow, now, wsrLoc, last_pct, ready, gateV, classV,
                    rtype, member_ids, members, trail >>

\* typ == "cluster": describe the cluster and collect member_ids; a ClientError
\* is caught by the outer except, which prints and returns
DoCluster ==
    /\ pc = "do_cluster"
    /\ \E found \in BOOLEAN, n \in 0..MaxMembers :
        IF found
        THEN /\ member_ids' = n
             /\ members' = n
             /\ pc' = "do_member"
             /\ UNCHANGED out
        ELSE /\ out' = Append(out, Line("msg", "Error deleting cluster"))
             /\ pc' = "pause"
             /\ UNCHANGED << member_ids, members >>
    /\ UNCHANGED << rbV, script, mode, flow, now, wsrLoc, last_pct, status, ready, gateV,
                    classV, rtype, wtarget, raised, hist, trail, calls >>

\* the wait that has returned is over: its history is gone
EndWait ==
    /\ waitKind' = "none"
    /\ polls' = 0
    /\ polled' = << >>
    /\ status' = "none"

\* variant: a member whose delete call fails ends the deletion of the cluster
DoMember_StopsOnError ==
    /\ pc = "do_member"
    /\ \E accepted \in BOOLEAN :
        IF members > 0
        THEN \* rds.delete_db_instance(inst_id); wait_deleted(rds, "instance", inst_id)
             /\ calls' = Append(calls, "delete_db_instance")
             /\ IF accepted
                THEN WdBegin("member") /\ UNCHANGED << members, trail >>
                ELSE \* except ClientError: pass
                     /\ EndWait
                     /\ out' = << Line("banner", "Deleting cluster instance") >>
                     /\ members' = members - 1
                     /\ trail' = Append(trail, "member_failed")
                     /\ pc' = "pause"
                     /\ UNCHANGED wtarget
        ELSE \* rds.delete_db_cluster(rid); wait_deleted(rds, "cluster", rid)
             /\ calls' = Append(calls, "delete_db_cluster")
             /\ IF accepted
                THEN WdBegin("cluster") /\ UNCHANGED << members, trail >>
                ELSE /\ EndWait
                     /\ out' = << Line("msg", "Error deleting cluster") >>
                     /\ pc' = "pause"
                     /\ UNCHANGED << wtarget, members, trail >>
    /\ UNCHANGED << rbV, script, mode, flow, now, wsrLoc, last_pct, ready, gateV, classV,
                    rtype, member_ids, raised >>

\* the member loop, then the deletion of the cluster itself
DoMember ==
    /\ pc = "do_member"
    /\ \E accepted \in BOOLEAN :
        IF members > 0
        THEN \* rds.delete_db_instance(inst_id); wait_deleted(rds, "instance", inst_id)
             /\ calls' = Append(calls, "delete_db_instance")
             /\ IF accepted
                THEN WdBegin("member") /\ UNCHANGED << members, trail >>
                ELSE \* except ClientError: pass
                     /\ EndWait
                     /\ out' = << Line("banner", "Deleting cluster instance") >>
                     /\ members' = members - 1
                     /\ trail' = Append(trail, "member_failed")
                     /\ pc' = "do_member"
                     /\ UNCHANGED wtarget
        ELSE \* rds.delete_db_cluster(rid); wait_deleted(rds, "cluster", rid)
             /\ calls' = Append(calls, "delete_db_cluster")
             /\ IF accepted
                THEN WdBegin("cluster") /\ UNCHANGED << members, trail >>
                ELSE /\ EndWait
                     /\ out' = << Line("msg", "Error deleting cluster") >>
                     /\ pc' = "pause"
                     /\ UNCHANGED << wtarget, members, trail >>
    /\ UNCHANGED << rbV, script, mode, flow, now, wsrLoc, last_pct, ready, gateV, classV,
                    rtype, member_ids, raised >>

\* the lines one loop body of wait_deleted prints for answer r
WdLines(r, scr) ==
    IF r = NOT_FOUND THEN << Line("msg", "Deleted") >>
    ELSE IF r = PRESENT /\ scr = "downgrade" THEN << Line("msg", "still deleting") >>
    ELSE << >>

\* the line the outer except of delete_old_resource prints for answer r
WdCaught(r, tgt) ==
    IF r = PROVIDER_ERROR /\ tgt = "cluster"
    THEN << Line("msg", "Error deleting cluster") >> ELSE << >>

\* the poll interval of the deletion wait
WdPollInterval(tgt, scr) ==
    IF scr = "downgrade" /\ tgt = "cluster" THEN CLUSTER_DELETE_POLL ELSE DELETE_POLL

\* one loop body of wait_deleted: describe, then sleep or return or raise
WdPoll ==
    /\ pc = "wd_poll"
    /\ polls < MaxPolls
    /\ \E r \in ResourceResponses :
        /\ status' = r
        /\ polls' = polls + 1
        /\ polled' = Append(polled, r)
        /\ out' = out \o WdLines(r, script) \o WdCaught(r, wtarget)
        /\ IF r = PRESENT
           THEN /\ pc' = "wd_sleep"
                /\ UNCHANGED << members, raised, trail >>
           ELSE IF wtarget = "member"
           THEN \* returned, or ClientError swallowed by the inner except
                /\ members' = members - 1
                /\ trail' = IF r = NOT_FOUND THEN trail
                            ELSE Append(trail, "member_failed")
                /\ pc' = "do_member"
                /\ UNCHANGED raised
           ELSE IF r = NOT_FOUND \/ wtarget = "cluster"
           THEN \* returned, or ClientError caught by the outer except
                /\ pc' = "pause"
                /\ UNCHANGED << members, raised, trail >>
           ELSE /\ Raise("ClientError", "describe_db_instances")
                /\ UNCHANGED << members, trail >>
    /\ UNCHANGED << rbV, script, mode, flow, now, wsrLoc, last_pct, ready, gateV, classV,
                    rtype, member_ids, wtarget, waitKind, calls >>

\* time.sleep(poll)
WdSleep ==
    /\ pc = "wd_sleep"
    /\ now' = now + WdPollInterval(wtarget, script)
    /\ pc' = "wd_poll"
    /\ UNCHANGED << rbV, script, mode, flow, wsrLoc, last_pct, status, ready, gateV, classV,
                    delV, raised, hist, out, trail, calls >>

\* ---------------------------------------------------------------------------
\* create_snapshot and wait_snapshot_progress
\* ---------------------------------------------------------------------------

SnapStatuses == {"creating", "available", "failed"}

SnapPcts == {0, 50, 100}

\* an answer of describe_db_snapshots: << Status, PercentProgress >>
SnapAnswers == SnapStatuses \X SnapPcts

SnapResponses == SnapAnswers \cup { << NOT_FOUND, 0 >>, << PROVIDER_ERROR, 0 >> }

\* where create_snapshot returns to, by caller
SnapReturnPc == IF flow = "create" THEN "create_bg" ELSE "pause"

\* is_cluster(identifier); create_db_snapshot / create_db_cluster_snapshot;
\* entry of wait_snapshot_progress (last_pct = -1)
SnapEnter ==
    /\ pc = "snapshot_enter"
    /\ trail' = Append(trail, "create_snapshot")
    /\ \E answer \in {"absent", "error", "rejected", "created"} :
        IF answer = "absent"
        THEN /\ pc' = "exited"
             /\ UNCHANGED << raised, calls, hist, last_pct, status, out >>
        ELSE IF answer = "error"
        THEN /\ Raise("ClientError", "describe_db_clusters")
             /\ UNCHANGED << calls, hist, last_pct, status, out >>
        ELSE /\ calls' = Append(calls, "create_db_snapshot")
             /\ IF answer = "rejected"
                THEN /\ Raise("ClientError", "create_db_snapshot")
                     /\ UNCHANGED << hist, last_pct, status, out >>
                ELSE /\ waitKind' = "snapshot"
                     /\ polls' = 0
                     /\ polled' = << >>
                     /\ status' = "none"
                     /\ last_pct' = -1
                     /\ out' = << Line("banner", "Waiting for snapshot to complete") >>
                     /\ pc' = "snap_poll"
                     /\ UNCHANGED raised
    /\ UNCHANGED << rbV, script, mode, flow, now, wsrLoc, ready, gateV, classV, delV >>

\* the lines one loop body of wait_snapshot_progress prints for answer r
SnapLines(r, prev_pct) ==
    IF r[1] \in {NOT_FOUND, PROVIDER_ERROR} THEN << >>
    ELSE (IF r[2] # prev_pct THEN << << "progress", r[1], r[2] >> >> ELSE << >>)
         \o (IF r[1] = "available" THEN << Line("msg", "Snapshot ready") >> ELSE << >>)

\* variant: a snapshot at 100 percent ends the wait
SnapPoll_ByPercent ==
    /\ pc = "snap_poll"
    /\ polls < MaxPolls
    /\ \E r \in SnapResponses :
        /\ status' = r[1]
        /\ polls' = polls + 1
        /\ polled' = Append(polled, r)
        /\ out' = out \o SnapLines(r, last_pct)
        /\ last_pct' = IF r \in SnapAnswers THEN r[2] ELSE last_pct
        /\ IF r[1] = PROVIDER_ERROR
           THEN Raise("ClientError", "describe_db_snapshots")
           ELSE /\ pc' = IF r[1] = "available" \/ r[2] = 100 THEN SnapReturnPc
                         ELSE "snap_sleep"
                /\ UNCHANGED raised
    /\ UNCHANGED << rbV, script, mode, flow, now, wsrLoc, ready, gateV, classV, delV,
                    waitKind, trail, calls >>

\* variant: a snapshot that is not found yet ends the wait with the error
SnapPoll_NotFoundRaises ==
    /\ pc = "snap_poll"
    /\ polls < MaxPolls
    /\ \E r \in SnapResponses :
        /\ status' = r[1]
        /\ polls' = polls + 1
        /\ polled' = Append(polled, r)
        /\ out' = out \o SnapLines(r, last_pct)
        /\ last_pct' = IF r \in SnapAnswers THEN r[2] ELSE last_pct
        /\ IF r[1] \in {PROVIDER_ERROR, NOT_FOUND}
           THEN Raise("ClientError", "describe_db_snapshots")
           ELSE /\ pc' = IF r[1] = "available" THEN SnapReturnPc ELSE "snap_sleep"
                /\ UNCHANGED raised
    /\ UNCHANGED << rbV, script, mode, flow, now, wsrLoc, ready, gateV, classV, delV,
                    waitKind, trail, calls >>

\* variant: a snapshot read as failed ends the wait with an error
SnapPoll_FailedRaises ==
    /\ pc = "snap_poll"
    /\ polls < MaxPolls
    /\ \E r \in SnapResponses :
        /\ status' = r[1]
        /\ polls' = polls + 1
        /\ polled' = Append(polled, r)
        /\ out' = out \o SnapLines(r, last_pct)
        /\ last_pct' = IF r \in SnapAnswers THEN r[2] ELSE last_pct
        /\ IF r[1] = PROVIDER_ERROR
           THEN Raise("ClientError", "describe_db_snapshots")
           ELSE IF r[1] = "failed"
           THEN Raise("RuntimeError", "failed")
           ELSE /\ pc' = IF r[1] = "available" THEN SnapReturnPc ELSE "snap_sleep"
                /\ UNCHANGED raised
    /\ UNCHANGED << rbV, script, mode, flow, now, wsrLoc, ready, gateV, classV, delV,
                    waitKind, trail, calls >>

\* one loop body of wait_snapshot_progress, up to time.sleep(poll)
SnapPoll ==
    /\ pc = "snap_poll"
    /\ polls < MaxPolls
    /\ \E r \in SnapResponses :
        /\ status' = r[1]
        /\ polls' = polls + 1
        /\ polled' = Append(polled, r)
        /\ out' = out \o SnapLines(r, last_pct)
        /\ last_pct' = IF r \in SnapAnswers THEN r[2] ELSE last_pct
        /\ IF r[1] = PROVIDER_ERROR
           THEN Raise("ClientError", "describe_db_snapshots")
           ELSE /\ pc' = IF r[1] = "available" THEN SnapReturnPc ELSE "snap_sleep"
                /\ UNCHANGED raised
    /\ UNCHANGED << rbV, script, mode, flow, now, wsrLoc, ready, gateV, classV, delV,
                    waitKind, trail, calls >>

\* time.sleep(poll)
SnapSleep ==
    /\ pc = "snap_sleep"
    /\ now' = now + DEFAULT_POLL_INTERVAL
    /\ pc' = "snap_poll"
    /\ UNCHANGED << rbV, script, mode, flow, wsrLoc, last_pct, status, ready, gateV,
                    classV, delV, raised, hist, out, trail, calls >>

\* ---------------------------------------------------------------------------
\* The rollback search: suffix stripping and find_old_resource_like.
\* Identifiers are sequences of characters.
\* ---------------------------------------------------------------------------

Root == << "o", "r", "d", "e", "r", "s" >>

SufOld1 == << "-", "o", "l", "d", "1" >>

SufOld2 == << "-", "o", "l", "d", "2" >>

SufOld == << "-", "o", "l", "d" >>

SufBlue == << "-", "b", "l", "u", "e" >>

SufPrevious == << "-", "p", "r", "e", "v", "i", "o", "u", "s" >>

OLD_RESOURCE_SUFFIXES == << SufOld1, SufOld2, SufOld, SufBlue, SufPrevious >>

SuffixSet == { OLD_RESOURCE_SUFFIXES[k] : k \in DOMAIN OLD_RESOURCE_SUFFIXES }

\* no identifier
NoId == << >>

\* identifier.endswith(suffix)
EndsWith(id, suffix) ==
    /\ Len(id) >= Len(suffix)
    /\ SubSeq(id, Len(id) - Len(suffix) + 1, Len(id)) = suffix

RECURSIVE StripFirst(_, _)
\* for suffix in OLD_RESOURCE_SUFFIXES: if identifier.endswith(suffix):
\*     base_identifier = identifier[:-len(suffix)]; break
StripFirst(id, suffixes) ==
    IF suffixes = << >> THEN id
    ELSE IF EndsWith(id, Head(suffixes))
    THEN SubSeq(id, 1, Len(id) - Len(Head(suffixes)))
    ELSE StripFirst(id, Tail(suffixes))

\* the identifier rollback_with_reverse_bg searches with: rds_bg_resize.py
\* strips a suffix, rds_bg_downgrade.py passes the identifier as it is
RollbackBase(scr, id) ==
    IF scr = "resize" THEN StripFirst(id, OLD_RESOURCE_SUFFIXES) ELSE id

\* the classes old resources are listed with; "none" is a missing class
ListedClasses == {"db.t3.medium", "db.t3.large", "none"}

\* sequences of at most n listed resources with identifiers of Ids, no
\* identifier twice
ResourceLists(Ids, n) ==
    { l \in UNION { [1..k -> [id : Ids, class : ListedClasses]] : k \in 0..n } :
        \A i, j \in 1..Len(l) : i # j => l[i].id # l[j].id }

\* what describe_db_instances and describe_db_clusters answer to the search:
\* the instances and the clusters (a cluster with the class of its writer) in
\* the provider's order; a call that raised ClientError yields nothing
ListingsOver(Ids) ==
    { [insts |-> a, clus |-> b, failed |-> f] :
        a \in ResourceLists(Ids, MaxInsts), b \in ResourceLists(Ids, MaxClus),
        f \in SUBSET {"instances", "clusters"} }

NoListing == [insts |-> << >>, clus |-> << >>, failed |-> {}]

NoOld == [type |-> "none", id |-> NoId, class |-> "none"]

\* any(iid == base_identifier + suf for suf in suffixes)
NamedLikeOld(id, base) == \E suf \in SuffixSet : id = base \o suf

\* the first resource of the list, in the list's order, named like an old copy
\* (0 when there is none)
FirstNamedLikeOld(l, base) ==
    LET M == { i \in 1..Len(l) : NamedLikeOld(l[i].id, base) }
    IN  IF M = {} THEN 0 ELSE CHOOSE i \in M : \A j \in M : i <= j

\* find_old_resource_like(rds, base_identifier)
find_old_resource_like(l, base) ==
    LET insts == IF "instances" \in l.failed THEN << >> ELSE l.insts
        clus == IF "clusters" \in l.failed THEN << >> ELSE l.clus
        i == FirstNamedLikeOld(insts, base)
        c == FirstNamedLikeOld(clus, base)
    IN  IF i > 0
        THEN [type |-> "instance", id |-> insts[i].id, class |-> insts[i].class]
        ELSE IF c > 0
        THEN [type |-> "cluster", id |-> clus[c].id, class |-> clus[c].class]
        ELSE NoOld

\* the negation of: if not old or not old.get("class")
OldFound(o) == o # NoOld /\ o.class # "none"

\* sid.startswith(prefix)
StartsWith(sid, prefix) ==
    /\ Len(sid) >= Len(prefix)
    /\ SubSeq(sid, 1, Len(prefix)) = prefix

TagResize == << "-", "p", "r", "e", "-", "r", "e", "s", "i", "z", "e", "-" >>

TagDowngrade ==
    << "-", "p", "r", "e", "-", "d", "o", "w", "n", "g", "r", "a", "d", "e", "-" >>

\* f"{identifier}-pre-resize-" / f"{identifier}-pre-downgrade-"
PrePrefix(scr, id) == id \o (IF scr = "resize" THEN TagResize ELSE TagDowngrade)

\* SnapshotCreateTime of a listed snapshot: a time, or None when it is missing
SnapTimes == Opt(1..MaxSnapTime)

\* sequences of at most n listed snapshots with identifiers of Ids, no
\* identifier twice
SnapshotLists(Ids, n) ==
    { l \in UNION { [1..k -> [id : Ids, time : SnapTimes]] : k \in 0..n } :
        \A i, j \in 1..Len(l) : i # j => l[i].id # l[j].id }

\* what describe_db_snapshots and describe_db_cluster_snapshots answer: the
\* snapshots in the provider's order; a call that raised ClientError yields
\* nothing
SnapshotListingsOver(Ids) ==
    { [insts |-> a, clus |-> b, failed |-> f] :
        a \in SnapshotLists(Ids, MaxSnaps), b \in SnapshotLists(Ids, MaxCluSnaps),
        f \in SUBSET {"instances", "clusters"} }

NoSnapshots == [insts |-> << >>, clus |-> << >>, failed |-> {}]

RECURSIVE ScanSnapshots(_, _, _)
\* for s in resp.get(...): if sid.startswith(prefix): t = s.get("SnapshotCreateTime");
\*     if t and (ts is None or t > ts): ts = t; latest = sid
ScanSnapshots(l, prefix, acc) ==
    IF l = << >> THEN acc
    ELSE LET s == Head(l)
             takes == /\ StartsWith(s.id, prefix)
                      /\ s.time # None
                      /\ (acc.ts = None \/ s.time[1] > acc.ts[1])
         IN  ScanSnapshots(Tail(l), prefix,
                           IF takes THEN [ts |-> s.time, latest |-> s.id] ELSE acc)

\* variant: the cluster snapshots are looked at only when no instance snapshot
\* was found
latest_pre_resize_snapshot_id_InstancesFirst(scr, sn, id) ==
    LET prefix == PrePrefix(scr, id)
        insts == IF "instances" \in sn.failed THEN << >> ELSE sn.insts
        clus == IF "clusters" \in sn.failed THEN << >> ELSE sn.clus
        none == [ts |-> None, latest |-> NoId]
        afterInsts == ScanSnapshots(insts, prefix, none)
    IN  IF afterInsts.latest # NoId THEN afterInsts.latest
        ELSE ScanSnapshots(clus, prefix, none).latest

\* latest_pre_resize_snapshot_id(rds, identifier) and, in rds_bg_downgrade.py,
\* latest_pre_downgrade_snapshot_id(rds, identifier); NoId is None
latest_pre_resize_snapshot_id(scr, sn, id) ==
    LET prefix == PrePrefix(scr, id)
        insts == IF "instances" \in sn.failed THEN << >> ELSE sn.insts
        clus == IF "clusters" \in sn.failed THEN << >> ELSE sn.clus
        afterInsts == ScanSnapshots(insts, prefix, [ts |-> None, latest |-> NoId])
    IN  ScanSnapshots(clus, prefix, afterInsts).latest

\* now_utc().strftime("%Y%m%d-%H%M%S"), shortened to a day and a second
Timestamps == { << "1", "-", "1" >>, << "1", "-", "2" >>, << "2", "-", "1" >> }

\* variant: the name the snapshot contract is worded with
create_snapshot_id_PreChange(scr, id, timestamp) ==
    id \o << "-", "p", "r", "e", "-", "c", "h", "a", "n", "g", "e", "-" >> \o timestamp

\* create_snapshot: snap_id = f"{identifier}-pre-resize-{timestamp}", in
\* rds_bg_downgrade.py f"{identifier}-pre-downgrade-{ts}"
create_snapshot_id(scr, id, timestamp) ==
    IF scr = "resize"
    THEN id \o << "-", "p", "r", "e", "-", "r", "e", "s", "i", "z", "e", "-" >> \o timestamp
    ELSE id \o << "-", "p", "r", "e", "-", "d", "o", "w", "n", "g", "r", "a", "d", "e", "-" >>
            \o timestamp

\* what the provider lists for the identifier once create_snapshot returned
\* and nothing else was ever taken: that one snapshot, among the instance
\* snapshots or among the cluster snapshots, with its creation time
OnlySnapshot(sid, is_clu, t) ==
    LET one == << [id |-> sid, time |-> Some(t)] >>
    IN  [insts |-> IF is_clu THEN << >> ELSE one,
         clus |-> IF is_clu THEN one ELSE << >>,
         failed |-> {}]

\* the snapshot identifiers the rollback action is explored with
FlowSnapshotIds(scr, id) == { PrePrefix(scr, id) \o << "1" >> }

\* the identifiers the rollback action is explored with
FlowIdentifiers == { Root, Root \o SufOld1 }

\* the listings the rollback action is explored with
FlowListings == ListingsOver({ Root \o SufOld1, Root \o SufOld })

\* ---------------------------------------------------------------------------
\* prechecks + print_precheck_summary, post_checks
\* ---------------------------------------------------------------------------

NoMetrics == [ cpu |-> None, free_mem |-> None, conns |-> None ]

\* the wait that has returned is over: its locals and its history are gone
ClearWait ==
    /\ start' = 0
    /\ deadline' = 0
    /\ poll' = 0
    /\ last' = ""
    /\ last_pct' = -1
    /\ waitKind' = "none"
    /\ polls' = 0
    /\ polled' = << >>

\* prechecks(rds, cw, identifier) followed by print_precheck_summary(metrics):
\* is_cluster may exit (identifier not found) or raise, a cluster may have no
\* writer, otherwise the provider returns some telemetry sample
RunChecks(step, nextPc) ==
    /\ trail' = Append(trail, step)
    /\ \/ /\ pc' = "exited"
          /\ UNCHANGED << gateV, raised, out >>
       \/ /\ Raise("ClientError", "describe_db_clusters")
          /\ UNCHANGED << gateV, out >>
       \/ /\ Raise("RuntimeError", "Writer instance not found")
          /\ UNCHANGED << gateV, out >>
       \/ \E m \in Samples :
            /\ metrics' = m
            /\ ok' = Bool(print_precheck_summary(m, script))
            /\ out' = PrecheckLines(m, script)
            /\ pc' = nextPc
            /\ UNCHANGED raised
    /\ probe' = IF flow = "rollback" THEN base_identifier ELSE identifier
    /\ listing' = NoListing
    /\ old' = IF flow = "rollback" /\ step = "prechecks" THEN old ELSE NoOld
    /\ UNCHANGED << resV, snapV, identifier, base_identifier, source, script, mode, flow, now,
                    wsrLoc, last_pct, status, ready, classV, delV, hist, calls >>

\* the pre-checks of a menu action
Prechecks ==
    /\ pc = "prechecks"
    /\ RunChecks("prechecks", "gate")

\* post_checks(rds, cw, identifier): the same checks, the result is not used
PostChecks ==
    /\ pc = "post_checks"
    /\ RunChecks("post_checks", "finish")

\* ---------------------------------------------------------------------------
\* The steps of the menu actions (main, rollback_with_reverse_bg)
\* ---------------------------------------------------------------------------

\* what the operator types at a "Type 'yes'" prompt: "no" is any other input
Answers == {"yes", "no"}

\* show_and_pick_target_class, then (rds_bg_resize.py) the lookup of current_class,
\* which stays None when the cluster writer cannot be read
PickClass ==
    /\ pc = "pick_class"
    /\ trail' = Append(trail, "pick_class")
    /\ \/ /\ pc' = "exited"
          /\ UNCHANGED << classV, raised >>
       \/ /\ Raise("ClientError", "describe_db_clusters")
          /\ UNCHANGED classV
       \/ \E tgt \in FlowClasses, cur \in FlowClasses \cup {"none"} :
            /\ target_class' = tgt
            /\ current_class' = IF script = "resize" THEN cur ELSE "none"
            /\ pc' = "prechecks"
            /\ UNCHANGED raised
    /\ UNCHANGED << rbV, script, mode, flow, now, wsrLoc, last_pct, status, ready, gateV,
                    delV, hist, out, calls >>

\* variant: a failed gate can be overridden in the create action as well
Gate_CreateOverride ==
    /\ pc = "gate"
    /\ \E confirm \in Answers :
        LET passed == ok = "True"
            \* may the operator override a failed gate in this flow?
            prompts == /\ script = "resize"
                       /\ flow \in {"switch", "rollback", "create"}
            admitted == passed \/ (prompts /\ confirm = "yes")
            verdict == IF passed THEN "gate_passed"
                       ELSE IF admitted THEN "gate_overridden" ELSE "gate_blocked"
        IN  /\ trail' = Append(trail, verdict)
            /\ pc' = IF flow = "precheck" \/ ~admitted THEN "pause"
                     ELSE IF flow = "switch" THEN "sw_enter"
                     ELSE IF flow = "rollback" THEN "create_bg"
                     ELSE IF script = "resize" /\ current_class # "none"
                          THEN "suitability"
                          ELSE "snapshot_enter"
            /\ metrics' = IF pc' = "suitability" THEN metrics ELSE NoMetrics
    /\ UNCHANGED << rbV, script, mode, flow, now, wsrLoc, last_pct, status, ready, ok,
                    classV, delV, raised, hist, out, calls >>

\* variant: the create action goes on to create_bg without a snapshot
Gate_NoSnapshot ==
    /\ pc = "gate"
    /\ \E confirm \in Answers :
        LET passed == ok = "True"
            \* may the operator override a failed gate in this flow?
            prompts == /\ script = "resize"
                       /\ flow \in {"switch", "rollback"}
            admitted == passed \/ (prompts /\ confirm = "yes")
            verdict == IF passed THEN "gate_passed"
                       ELSE IF admitted THEN "gate_overridden" ELSE "gate_blocked"
        IN  /\ trail' = Append(trail, verdict)
            /\ pc' = IF flow = "precheck" \/ ~admitted THEN "pause"
                     ELSE IF flow = "switch" THEN "sw_enter"
                     ELSE IF flow = "rollback" THEN "create_bg"
                     ELSE IF script = "resize" /\ current_class # "none"
                          THEN "suitability"
                          ELSE "create_bg"
            /\ metrics' = IF pc' = "suitability" THEN metrics ELSE NoMetrics
    /\ UNCHANGED << rbV, script, mode, flow, now, wsrLoc, last_pct, status, ready, ok,
                    classV, delV, raised, hist, out, calls >>

\* the caller's branch on the value print_precheck_summary returned
Gate ==
    /\ pc = "gate"
    /\ \E confirm \in Answers :
        LET passed == ok = "True"
            \* may the operator override a failed gate in this flow?
            prompts == /\ script = "resize"
                       /\ flow \in {"switch", "rollback"}
            admitted == passed \/ (prompts /\ confirm = "yes")
            verdict == IF passed THEN "gate_passed"
                       ELSE IF admitted THEN "gate_overridden" ELSE "gate_blocked"
        IN  /\ trail' = Append(trail, verdict)
            /\ pc' = IF flow = "precheck" \/ ~admitted THEN "pause"
                     ELSE IF flow = "switch" THEN "sw_enter"
                     ELSE IF flow = "rollback" THEN "create_bg"
                     ELSE IF script = "resize" /\ current_class # "none"
                          THEN "suitability"
                          ELSE "snapshot_enter"
            /\ metrics' = IF pc' = "suitability" THEN metrics ELSE NoMetrics
    /\ UNCHANGED << rbV, script, mode, flow, now, wsrLoc, last_pct, status, ready, ok,
                    classV, delV, raised, hist, out, calls >>

\* check_target_class_suitability and the caller's "Proceed anyway?" prompt
Suitability ==
    /\ pc = "suitability"
    /\ \E confirm \in Answers :
        LET suitable ==
                check_target_class_suitability(current_class, target_class, metrics)
            verdict == IF suitable THEN "suitable"
                       ELSE IF confirm = "yes" THEN "unsuitable_overridden"
                       ELSE "unsuitable_blocked"
        IN  /\ trail' = Append(trail, verdict)
            /\ pc' = IF verdict = "unsuitable_blocked" THEN "pause"
                     ELSE "snapshot_enter"
    /\ out' = SuitabilityLines(current_class, target_class, metrics)
    /\ metrics' = NoMetrics
    /\ current_class' = "none"
    /\ UNCHANGED << rbV, script, mode, flow, now, wsrLoc, last_pct, status, ready, ok,
                    target_class, delV, raised, hist, calls >>

\* create_bg: is_cluster, then create_blue_green_deployment; in rollback and in
\* the create action of rds_bg_downgrade.py a second is_cluster follows the
\* creation
CreateBg ==
    /\ pc = "create_bg"
    /\ ClearWait
    /\ status' = "none"
    /\ trail' = Append(trail, "create_bg")
    /\ out' = << Line("banner", "Creating Blue/Green deployment") >>
    /\ \E answer \in {"absent", "error", "rejected", "created", "created_absent",
                      "created_error"} :
        /\ answer \in {"created_absent", "created_error"} =>
                (flow = "rollback" \/ script = "downgrade")
        /\ calls' = IF answer \in {"absent", "error"} THEN calls
                    ELSE Append(calls, "create_blue_green_deployment")
        /\ IF answer \in {"absent", "created_absent"}
           THEN pc' = "exited" /\ UNCHANGED raised
           ELSE IF answer \in {"error", "created_error"}
           THEN Raise("ClientError", "describe_db_clusters")
           ELSE IF answer = "rejected"
           THEN Raise("ClientError", "create_blue_green_deployment")
           ELSE pc' = "wsr_enter" /\ UNCHANGED raised
    /\ source' = IF flow = "rollback" THEN base_identifier ELSE identifier
    /\ UNCHANGED << resV, snapV, identifier, base_identifier, listing, old, probe, script, mode,
                    flow, now, ready, gateV, classV, delV >>

\* variant: a deployment that became ready is cut over at once
CreateReport_SwitchesWhenReady ==
    /\ pc = "create_report"
    /\ ClearWait
    /\ status' = "none"
    /\ out' = << Line("msg", IF ready = "True" THEN "Blue/Green is ready to switch"
                                               ELSE "Not ready yet") >>
    /\ trail' = Append(trail, IF ready = "True" THEN "reported_ready"
                                                ELSE "reported_not_ready")
    /\ pc' = IF ready = "True" THEN "sw_enter" ELSE "pause"
    /\ UNCHANGED << rbV, script, mode, flow, now, ready, gateV, classV, delV, raised, calls >>

\* variant: a deployment that did not become ready is deleted again
CreateReport_CleansUp ==
    /\ pc = "create_report"
    /\ ClearWait
    /\ status' = "none"
    /\ out' = << Line("msg", IF ready = "True" THEN "Blue/Green is ready to switch"
                                               ELSE "Not ready yet") >>
    /\ trail' = Append(trail, IF ready = "True" THEN "reported_ready"
                                                ELSE "reported_not_ready")
    /\ calls' = IF ready = "True" THEN calls
                ELSE Append(calls, "delete_blue_green_deployment")
    /\ pc' = "pause"
    /\ UNCHANGED << rbV, script, mode, flow, now, ready, gateV, classV, delV, raised >>

\* main: if wait_switch_ready(...): print ready, else: print not ready; pause()
CreateReport ==
    /\ pc = "create_report"
    /\ ClearWait
    /\ status' = "none"
    /\ out' = << Line("msg", IF ready = "True" THEN "Blue/Green is ready to switch"
                                               ELSE "Not ready yet") >>
    /\ trail' = Append(trail, IF ready = "True" THEN "reported_ready"
                                                ELSE "reported_not_ready")
    /\ pc' = "pause"
    /\ UNCHANGED << rbV, script, mode, flow, now, ready, gateV, classV, delV, raised, calls >>

\* rds_bg_resize.py, action 3: "Proceed with rollback? Type 'yes'"
RbConfirm ==
    /\ pc = "rb_confirm"
    /\ \E confirm \in Answers :
        pc' = IF confirm = "yes" THEN "rb_find" ELSE "pause"
    /\ UNCHANGED << rbV, script, mode, flow, now, wsrLoc, last_pct, status, ready, gateV,
                    classV, delV, raised, hist, out, trail, calls >>

\* variant: the snapshot that was found is restored automatically
RbReport_Restores(snap) ==
    /\ out' = << Line("msg", IF snap THEN "Restore from snapshot manually"
                                     ELSE "No snapshot found") >>
    /\ pc' = "pause"
    /\ calls' = IF snap THEN Append(calls, "restore_db_instance_from_db_snapshot")
                ELSE calls
    /\ UNCHANGED target_class

\* rollback_with_reverse_bg when no old copy with a class was found: report
\* the latest pre-change snapshot, or that there is none, and return
RbReport(snap) ==
    /\ out' = << Line("msg", IF snap THEN "Restore from snapshot manually"
                                     ELSE "No snapshot found") >>
    /\ pc' = "pause"
    /\ UNCHANGED << target_class, calls >>

\* rollback_with_reverse_bg up to the pre-rollback checks: the base identifier,
\* the search for the old copy, and either its class as the target class or
\* the snapshot lookup (the answer of the search is gone by then) and its hint
RbFind ==
    /\ pc = "rb_find"
    /\ \E l \in FlowListings :
        LET base == RollbackBase(script, identifier)
            found == find_old_resource_like(l, base)
        IN  /\ listing' = IF OldFound(found) THEN l ELSE NoListing
            /\ base_identifier' = base
            /\ old' = found
            /\ IF OldFound(found)
               THEN /\ trail' = trail \o << "find_old_resource_like", "old_found" >>
                    /\ target_class' = found.class
                    /\ out' = << Line("msg", "Found old copy") >>
                    /\ pc' = "prechecks"
                    /\ UNCHANGED << calls, snapV >>
               ELSE /\ trail' = trail \o << "find_old_resource_like", "old_missing" >>
                    /\ \E sn \in SnapshotListingsOver(FlowSnapshotIds(script, base)) :
                        LET snap == latest_pre_resize_snapshot_id(script, sn, base)
                        IN  /\ snaps' = sn
                            /\ latest' = snap
                            /\ RbReport(snap # NoId)
    /\ UNCHANGED << resV, identifier, probe, source, script, mode, flow, now, wsrLoc,
                    last_pct, status, ready, gateV, current_class, delV, raised, hist >>

\* variant: the cut-over follows the wait whatever it returned
RbAfterWait_SwitchesAnyway ==
    /\ pc = "rb_after_wait"
    /\ ClearWait
    /\ UNCHANGED status
    /\ pc' = "sw_enter"
    /\ old' = NoOld
    /\ UNCHANGED << resV, snapV, identifier, base_identifier, listing, probe, source, script, mode,
                    flow, now, ready, gateV, classV, delV, raised, out, trail, calls >>

\* rollback_with_reverse_bg: if not wait_switch_ready(...): print; return
\* (the status the wait read last is kept up to the cut-over that follows)
RbAfterWait ==
    /\ pc = "rb_after_wait"
    /\ ClearWait
    /\ status' = IF ready = "True" THEN status ELSE "none"
    /\ IF ready = "True"
       THEN /\ pc' = "sw_enter"
            /\ UNCHANGED out
       ELSE /\ out' = << Line("msg", "Reverse Blue/Green not ready") >>
            /\ pc' = "pause"
    /\ old' = NoOld
    /\ UNCHANGED << resV, snapV, identifier, base_identifier, listing, probe, source, script, mode,
                    flow, now, ready, gateV, classV, delV, raised, trail, calls >>

\* verify_same_identifier_and_endpoint: is_cluster, then the printed report
Verify ==
    /\ pc = "verify"
    /\ ClearWait
    /\ status' = "none"
    /\ trail' = Append(trail, "verify")
    /\ \/ /\ pc' = "exited"
          /\ UNCHANGED << raised, out >>
       \/ /\ Raise("ClientError", "describe_db_clusters")
          /\ UNCHANGED out
       \/ /\ out' = << Line("msg", "Verification") >>
          /\ pc' = "post_checks"
          /\ UNCHANGED raised
    /\ UNCHANGED << rbV, script, mode, flow, now, ready, gateV, classV, delV, calls >>

\* does the flow end with a success message?
PrintsSuccess ==
    \/ flow = "rollback"
    \/ flow = "switch" /\ mode = "new" /\ script = "resize"

\* the statements after post_checks / print_precheck_summary
Finish ==
    /\ pc = "finish"
    /\ metrics' = NoMetrics
    /\ trail' = IF PrintsSuccess THEN Append(trail, "success_message") ELSE trail
    /\ pc' = "pause"
    /\ UNCHANGED << rbV, script, mode, flow, now, wsrLoc, last_pct, status, ready, ok,
                    classV, delV, raised, hist, out, calls >>

\* pause(): back to the menu
Pause ==
    /\ pc = "pause"
    /\ pc' = "menu"
    /\ UNCHANGED << rbV, script, mode, flow, now, wsrLoc, last_pct, status, ready, gateV,
                    classV, delV, raised, hist, out, trail, calls >>

\* ---------------------------------------------------------------------------
\* The menus (main)
\* ---------------------------------------------------------------------------

Modes == {"new", "resume"}

Flows ==
    { "create", "switch", "rollback", "delete_record", "delete_old", "show",
      "precheck", "snapshot", "postcheck" }

\* the actions the resume menu offers
ResumeFlows == {"switch", "rollback", "show", "delete_record", "delete_old"}

\* the first step of menu action f
EntryPc(md, f, scr) ==
    IF f = "create" THEN "pick_class"
    ELSE IF f = "precheck" THEN "prechecks"
    ELSE IF f = "postcheck" THEN "post_checks"
    ELSE IF f = "snapshot" THEN "snapshot_enter"
    ELSE IF md = "new" /\ scr = "resize" /\ f = "rollback" THEN "rb_confirm"
    ELSE IF md = "new" /\ scr = "resize" /\ f = "delete_old" THEN "do_enter"
    ELSE "dispatch"

\* the operator picks a menu action; nothing of the previous action is kept
Start ==
    /\ pc = "menu"
    /\ \E md \in Modes, f \in Flows :
        /\ md = "resume" => f \in ResumeFlows
        /\ mode' = md
        /\ flow' = f
        /\ pc' = EntryPc(md, f, script)
        /\ identifier' \in IF f = "rollback" THEN FlowIdentifiers ELSE {Root}
    /\ now' = 0
    /\ ClearWait
    /\ status' = "none"
    /\ ready' = "none"
    /\ metrics' = NoMetrics
    /\ ok' = "none"
    /\ current_class' = "none"
    /\ target_class' = "none"
    /\ rtype' = "none"
    /\ member_ids' = -1
    /\ members' = 0
    /\ wtarget' = "none"
    /\ out' = << >>
    /\ trail' = << >>
    /\ calls' = << >>
    /\ base_identifier' = NoId
    /\ listing' = NoListing
    /\ old' = NoOld
    /\ probe' = NoId
    /\ source' = NoId
    /\ snaps' = NoSnapshots
    /\ latest' = NoId
    /\ UNCHANGED << resV, script, raised >>

\* does the menu action read the deployment's status before it acts?
ReadsStatus(md, f, scr) ==
    md = "resume" \/ scr = "downgrade" \/ f \in {"switch", "show"}

\* the step taken once a fresh status r was read for the selected deployment
AfterStatus(md, f, scr, r) ==
    IF f = "switch"
    THEN (IF md = "new" /\ scr = "resize" THEN "prechecks" ELSE "sw_enter")
    ELSE IF f = "rollback"
    THEN (IF r \in ReadyStatuses THEN "pause" ELSE "rb_find")
    ELSE IF f = "show"
    THEN (IF md = "resume" THEN "show" ELSE "pause")
    ELSE IF f = "delete_record" THEN "dr_enter"
    ELSE "do_enter"

\* choose_existing_bg (new flow) and the bg_status read that precedes the action
Dispatch ==
    /\ pc = "dispatch"
    /\ \/ \* choose_existing_bg returned None: back to the menu
          /\ mode = "new"
          /\ pc' = "menu"
          /\ UNCHANGED << status, raised, out, trail >>
       \/ \* list_bg_deployments raised
          /\ mode = "new"
          /\ Raise("ClientError", "describe_blue_green_deployments")
          /\ UNCHANGED << status, out, trail >>
       \/ \* rds_bg_resize.py, cleanup 1: no status read
          /\ ~ReadsStatus(mode, flow, script)
          /\ pc' = "dr_enter"
          /\ UNCHANGED << status, raised, out, trail >>
       \/ /\ ReadsStatus(mode, flow, script)
          /\ trail' = Append(trail, "bg_status")
          /\ \E r \in Responses :
                /\ status' = r
                /\ IF r = PROVIDER_ERROR
                   THEN /\ Raise("ClientError", "describe_blue_green_deployments")
                        /\ UNCHANGED out
                   ELSE IF r = NOT_FOUND
                   THEN /\ out' = << Line("msg", "Blue/Green deployment not found") >>
                        /\ pc' = IF mode = "resume" THEN "menu" ELSE "pause"
                        /\ UNCHANGED raised
                   ELSE /\ out' = << Line("selected", r) >>
                        /\ pc' = AfterStatus(mode, flow, script, r)
                        /\ UNCHANGED raised
    /\ UNCHANGED << rbV, script, mode, flow, now, wsrLoc, last_pct, ready, gateV, classV,
                    delV, hist, calls >>

\* resume menu, action 7: a second bg_status, then the JSON dump
Show ==
    /\ pc = "show"
    /\ trail' = Append(trail, "bg_status")
    /\ \E r \in Responses :
        /\ status' = r
        /\ IF r = PROVIDER_ERROR
           THEN /\ Raise("ClientError", "describe_blue_green_deployments")
                /\ UNCHANGED out
           ELSE IF r = NOT_FOUND
           THEN /\ out' = << Line("msg", "Blue/Green deployment was deleted") >>
                /\ pc' = "menu"
                /\ UNCHANGED raised
           ELSE /\ out' = << Line("json", r) >>
                /\ pc' = "pause"
                /\ UNCHANGED raised
    /\ UNCHANGED << rbV, script, mode, flow, now, wsrLoc, last_pct, ready, gateV, classV,
                    delV, hist, calls >>

\* mode menu, "0": Goodbye
Quit ==
    /\ pc = "menu"
    /\ pc' = "exited"
    /\ UNCHANGED << rbV, script, mode, flow, now, wsrLoc, last_pct, status, ready, gateV,
                    classV, delV, raised, hist, out, trail, calls >>

\* Ctrl+C: KeyboardInterrupt propagates to the module-level handler, which
\* prints "Aborted by user" and lets the process end
Interrupt ==
    /\ ~Ended
    /\ pc' = "aborted"
    /\ raised' = << "KeyboardInterrupt", "" >>
    /\ UNCHANGED << rbV, script, mode, flow, now, wsrLoc, last_pct, status, ready, gateV,
                    classV, delV, hist, out, trail, calls >>

\* ---------------------------------------------------------------------------
\* Specification
\* ---------------------------------------------------------------------------

Init ==
    /\ script \in Scripts
    /\ mode = "new"
    /\ flow = "none"
    /\ pc = "menu"
    /\ now = 0
    /\ start = 0
    /\ deadline = 0
    /\ poll = 0
    /\ last = ""
    /\ last_pct = -1
    /\ status = "none"
    /\ ready = "none"
    /\ metrics = NoMetrics
    /\ ok = "none"
    /\ current_class = "none"
    /\ target_class = "none"
    /\ rtype = "none"
    /\ member_ids = -1
    /\ members = 0
    /\ wtarget = "none"
    /\ raised = NoException
    /\ waitKind = "none"
    /\ polls = 0
    /\ polled = << >>
    /\ out = << >>
    /\ trail = << >>
    /\ calls = << >>
    /\ identifier = Root
    /\ base_identifier = NoId
    /\ listing = NoListing
    /\ old = NoOld
    /\ probe = NoId
    /\ source = NoId
    /\ snaps = NoSnapshots
    /\ latest = NoId
    /\ lookup = NoLookup
    /\ resolved = NotResolved
    /\ desc = NoDescription
    /\ queried = << >>
    /\ snap_id = NoId

Next ==
    \/ Start
    \/ Quit
    \/ Interrupt
    \/ Dispatch
    \/ Show
    \/ PickClass
    \/ Prechecks
    \/ Gate
    \/ Suitability
    \/ SnapEnter
    \/ SnapPoll
    \/ SnapSleep
    \/ CreateBg
    \/ WsrEnter
    \/ WsrTest
    \/ WsrPoll
    \/ WsrSleep
    \/ CreateReport
    \/ RbConfirm
    \/ RbFind
    \/ RbAfterWait
    \/ SwEnter
    \/ SwPoll
    \/ SwSleep
    \/ Verify
    \/ PostChecks
    \/ Finish
    \/ DrEnter
    \/ DrPoll
    \/ DrSleep
    \/ DoEnter
    \/ DoInstance
    \/ DoCluster
    \/ DoMember
    \/ WdPoll
    \/ WdSleep
    \/ Pause

Spec == Init /\ [][Next]_vars

\* ---------------------------------------------------------------------------
\* Fairness: a process that is inside wait_switch_ready keeps executing it
\* ---------------------------------------------------------------------------

FairSpec ==
    /\ Init
    /\ [][Next]_vars
    /\ WF_vars(WsrTest)
    /\ WF_vars(WsrPoll)
    /\ WF_vars(WsrSleep)

\* ---------------------------------------------------------------------------
\* The admission functions on their own: print_precheck_summary and
\* check_target_class_suitability called with arbitrary arguments
\* ---------------------------------------------------------------------------

\* every class of the table, and one the table does not list
AllClasses == DOMAIN INSTANCE_SPECS \cup {UnlistedClass}

\* the identifiers the suffix stripping is called with: no suffix, each
\* suffix, two suffixes in a row, and endings that only resemble a suffix
Identifiers ==
    { Root \o s \o t : s \in {<< >>, SufOld, SufOld1},
                       t \in SuffixSet \cup {<< >>, << "1" >>, << "x" >>} }
    \cup { SufOld }

\* the base identifiers find_old_resource_like is called with
SearchBases == { Root, Root \o SufOld }

\* the identifiers the provider lists to it
SearchListedIds ==
    { Root \o suf : suf \in SuffixSet } \cup { Root, Root \o SufOld \o SufOld1 }

\* the identifiers latest_pre_resize_snapshot_id is called with
SnapshotBases == { Root, Root \o SufOld1 }

\* the snapshot identifiers the provider lists to it: the tool's snapshots of
\* both scripts, and one of another resource
SnapshotListedIds ==
    { Root \o tag \o n : tag \in {TagResize, TagDowngrade}, n \in {<< "1" >>, << "2" >>} }
    \cup { Root \o SufOld1 \o TagResize \o << "1" >> }

\* the arguments of one call: a telemetry sample for the Health Gate, a sample
\* and two classes for the projector (rds_bg_resize.py only), an identifier for
\* the suffix stripping, a base identifier and a listing for the search
PureInit ==
    /\ script \in Scripts
    /\ mode = "new"
    /\ flow = "none"
    /\ pc \in {"call_summary", "call_suitability", "call_strip", "call_find",
               "call_latest", "call_is_cluster", "call_prechecks", "call_create_snapshot"}
    /\ pc = "call_suitability" => script = "resize"
    /\ IF pc \in {"call_summary", "call_suitability"}
       THEN metrics \in Samples ELSE metrics = NoMetrics
    /\ IF pc = "call_strip" THEN identifier \in Identifiers
       ELSE IF pc \in {"call_latest", "call_create_snapshot"}
       THEN identifier \in SnapshotBases
       ELSE identifier = Root
    /\ IF pc = "call_find"
       THEN base_identifier \in SearchBases /\ listing \in ListingsOver(SearchListedIds)
       ELSE base_identifier = NoId /\ listing = NoListing
    /\ old = NoOld
    /\ probe = NoId
    /\ source = NoId
    /\ IF pc = "call_latest" THEN snaps \in SnapshotListingsOver(SnapshotListedIds)
       ELSE snaps = NoSnapshots
    /\ latest = NoId
    /\ IF pc = "call_is_cluster" THEN lookup \in [clu : ClusterAnswers, inst : InstanceAnswers]
       ELSE lookup = NoLookup
    /\ resolved = NotResolved
    /\ IF pc = "call_prechecks" THEN desc \in Descriptions ELSE desc = NoDescription
    /\ queried = << >>
    /\ snap_id = NoId
    /\ IF pc = "call_suitability"
       THEN current_class \in AllClasses /\ target_class \in AllClasses
       ELSE current_class = "none" /\ target_class = "none"
    /\ now = 0
    /\ start = 0
    /\ deadline = 0
    /\ poll = 0
    /\ last = ""
    /\ last_pct = -1
    /\ status = "none"
    /\ ready = "none"
    /\ ok = "none"
    /\ rtype = "none"
    /\ member_ids = -1
    /\ members = 0
    /\ wtarget = "none"
    /\ raised = NoException
    /\ waitKind = "none"
    /\ polls = 0
    /\ polled = << >>
    /\ out = << >>
    /\ trail = << >>
    /\ calls = << >>

\* ok = print_precheck_summary(metrics)
CallSummary ==
    /\ pc = "call_summary"
    /\ ok' = Bool(print_precheck_summary(metrics, script))
    /\ out' = PrecheckLines(metrics, script)
    /\ pc' = "summary_returned"
    /\ UNCHANGED << rbV, script, mode, flow, now, wsrLoc, last_pct, status, ready, metrics,
                    classV, delV, raised, hist, trail, calls >>

\* suitable = check_target_class_suitability(..., current_class, target_class, metrics)
CallSuitability ==
    /\ pc = "call_suitability"
    /\ ok' = Bool(check_target_class_suitability(current_class, target_class, metrics))
    /\ out' = SuitabilityLines(current_class, target_class, metrics)
    /\ pc' = "suitability_returned"
    /\ UNCHANGED << rbV, script, mode, flow, now, wsrLoc, last_pct, status, ready, metrics,
                    classV, delV, raised, hist, trail, calls >>

\* the first lines of rollback_with_reverse_bg: the base identifier
CallStrip ==
    /\ pc = "call_strip"
    /\ base_identifier' = RollbackBase(script, identifier)
    /\ pc' = "strip_returned"
    /\ UNCHANGED << resV, snapV, identifier, listing, old, probe, source, script, mode, flow, now,
                    wsrLoc, last_pct, status, ready, gateV, classV, delV, raised,
                    hist, out, trail, calls >>

\* old = find_old_resource_like(rds, base_identifier)
CallFind ==
    /\ pc = "call_find"
    /\ old' = find_old_resource_like(listing, base_identifier)
    /\ pc' = "find_returned"
    /\ UNCHANGED << resV, snapV, identifier, base_identifier, listing, probe, source, script, mode,
                    flow, now, wsrLoc, last_pct, status, ready, gateV, classV, delV,
                    raised, hist, out, trail, calls >>

\* snap = latest_pre_resize_snapshot_id(rds, identifier)
CallLatest ==
    /\ pc = "call_latest"
    /\ latest' = latest_pre_resize_snapshot_id(script, snaps, identifier)
    /\ pc' = "latest_returned"
    /\ UNCHANGED << resV, snaps, identifier, base_identifier, listing, old, probe, source,
                    script, mode, flow, now, wsrLoc, last_pct, status, ready, gateV,
                    classV, delV, raised, hist, out, trail, calls >>

\* is_clu, desc = is_cluster(rds, identifier)
CallIsCluster ==
    /\ pc = "call_is_cluster"
    /\ resolved' = is_cluster(script, lookup)
    /\ out' = IF resolved'.outcome = "exit"
              THEN << Line("msg", "Identifier not found") >> ELSE << >>
    /\ pc' = "is_cluster_returned"
    /\ UNCHANGED << lookup, telV, snap_id, snapV, identifier, base_identifier, listing, old, probe,
                    source, script, mode, flow, now, wsrLoc, last_pct, status, ready,
                    gateV, classV, delV, raised, hist, trail, calls >>

\* metrics = prechecks(rds, cw, identifier), after is_cluster returned desc:
\* RuntimeError when a cluster has no writer, otherwise five get_metric_avg
\* calls whose answers make the sample
CallPrechecks ==
    /\ pc = "call_prechecks"
    /\ LET inst_id == PrechecksInstId(desc)
       IN  IF inst_id = None
           THEN /\ Raise("RuntimeError", WriterNotFound(script))
                /\ UNCHANGED << queried, metrics >>
           ELSE /\ queried' = PrechecksQueries(inst_id[1])
                /\ metrics' \in Samples
                /\ pc' = "prechecks_returned"
                /\ UNCHANGED raised
    /\ UNCHANGED << lookup, resolved, desc, snap_id, snapV, identifier, base_identifier,
                    listing, old, probe, source, script, mode, flow, now, wsrLoc, last_pct,
                    status, ready, ok, classV, delV, hist, out, trail, calls >>

\* snap_id = create_snapshot(rds, identifier) on a resource that has no other
\* snapshot, followed by the listing the provider gives from then on; the
\* lookup of the rollback fallback is the next call
CallCreateSnapshot ==
    /\ pc = "call_create_snapshot"
    /\ \E timestamp \in Timestamps, is_clu \in BOOLEAN, t \in 1..MaxSnapTime :
        LET sid == create_snapshot_id(script, identifier, timestamp)
        IN  /\ snap_id' = sid
            /\ snaps' = OnlySnapshot(sid, is_clu, t)
    /\ pc' = "call_latest"
    /\ UNCHANGED << lookup, resolved, telV, latest, identifier, base_identifier, listing,
                    old, probe, source, script, mode, flow, now, wsrLoc, last_pct,
                    status, ready, gateV, classV, delV, raised, hist, out, trail, calls >>

PureNext ==
    \/ CallSummary
    \/ CallSuitability
    \/ CallStrip
    \/ CallFind
    \/ CallLatest
    \/ CallIsCluster
    \/ CallPrechecks
    \/ CallCreateSnapshot

PureSpec == PureInit /\ [][PureNext]_vars

\* ---------------------------------------------------------------------------
\* Properties
\* ---------------------------------------------------------------------------

TerminalFailure == {"SWITCHOVER_FAILED", "DELETED"}

WsrPcs == {"wsr_test", "wsr_poll", "wsr_sleep"}

\* wait_switch_ready has just returned to its caller
WsrReturned == waitKind = "ready" /\ pc \in {"create_report", "rb_after_wait"}

\* the texts of the printed lines of kind k, in order
TextsOf(k) ==
    LET sel == SelectSeq(out, LAMBDA l : l[1] = k)
    IN  [ i \in 1..Len(sel) |-> sel[i][2] ]

\* C1: wait_switch_ready returns true only when the status it last read is
\* AVAILABLE or SWITCH_READY; for any other status, not-found and timeout it
\* never returns true.
C1_TrueOnlyWhenReady ==
    (WsrReturned /\ ready = "True") => status \in {"AVAILABLE", "SWITCH_READY"}

\* C2: wait_switch_ready stops at the first poll that observes not-found,
\* SWITCHOVER_FAILED or DELETED: that answer is the last one it reads and it
\* returns false, so no later ready-looking answer can make it return true.
C2_StopsAtFirstFailure ==
    waitKind = "ready" =>
        \A i \in 1..Len(polled) :
            polled[i] \in TerminalFailure \cup {NOT_FOUND} =>
                /\ i = Len(polled)
                /\ polls = i
                /\ ready = "False"
                /\ pc \in {"create_report", "rb_after_wait", "aborted"}

C2_Witness ==
    /\ WsrReturned
    /\ Len(polled) >= 2
    /\ polled[1] = "PROVISIONING"
    /\ polled[Len(polled)] = "DELETED"
    /\ ready = "False"

\* C3: switch_over returns normally only after it has observed
\* SWITCHOVER_COMPLETED; a not-found answer is not a normal return.
C3_ReturnsOnlyWhenCompleted ==
    (waitKind = "switch" /\ pc = "verify") => status = "SWITCHOVER_COMPLETED"

\* C4: when switch_over observes SWITCHOVER_FAILED or DELETED it raises an
\* error carrying that status, the process ends there, and none of the steps
\* that follow a switch (verification, post-check, success message) has run.
C4_FailedSwitchRaises ==
    (waitKind = "switch" /\ status \in TerminalFailure) =>
        /\ pc = "crashed"
        /\ raised = << "RuntimeError", status >>
        /\ trail[Len(trail)] = "switch_over"
        /\ \A i \in 1..Len(trail) :
                trail[i] \notin {"verify", "post_checks", "success_message"}

C4_Witness ==
    /\ flow = "rollback"
    /\ waitKind = "switch"
    /\ status = "DELETED"
    /\ pc = "crashed"
    /\ raised = << "RuntimeError", "DELETED" >>

\* the answers that were statuses of the deployment, in polling order
StatusesPolled == SelectSeq(polled, LAMBDA r : r \in Statuses)

\* does answer r end the wait of kind k?
EndsWait(k, r) ==
    IF k = "switch"
    THEN r \in {"SWITCHOVER_COMPLETED", "SWITCHOVER_FAILED", "DELETED",
                NOT_FOUND, PROVIDER_ERROR}
    ELSE r \in {NOT_FOUND, PROVIDER_ERROR}

\* the positions inside the polling loop of the wait of kind k
LoopPcs(k) ==
    IF k = "switch" THEN {"sw_poll", "sw_sleep"}
    ELSE IF k = "record" THEN {"dr_poll", "dr_sleep"}
    ELSE {"wd_poll", "wd_sleep"}

\* C5: the switch wait and the deletion waits have no timeout: whatever the
\* clock shows, they stay in their polling loop as long as every answer was a
\* non-terminal status (resp. "present"), and they leave it exactly at the
\* poll that reads a terminal status / not-found or that raises.
C5_NoTimeout ==
    (waitKind \in {"switch", "record", "resource"} /\ polls > 0 /\ pc # "aborted") =>
        /\ \A i \in 1..(Len(polled) - 1) : ~EndsWait(waitKind, polled[i])
        /\ EndsWait(waitKind, polled[Len(polled)]) <=> pc \notin LoopPcs(waitKind)

C5_Witness ==
    /\ waitKind = "record"
    /\ pc = "dr_sleep"
    /\ polls >= 2
    /\ polled[1] = "DELETED"
    /\ polled[2] = "SWITCHOVER_COMPLETED"
    /\ now >= RECORD_POLL

\* wait_switch_ready returned because the deadline passed
TimedOut ==
    /\ WsrReturned
    /\ out[Len(out)] = Line("msg", "Timed out while waiting")

\* C6 (safety part): wait_switch_ready polls only while the clock is before
\* the deadline, makes at most ceil(timeout / poll) polls, and when no ready,
\* terminal or not-found answer was read it returns false once the clock has
\* reached the deadline.
C6_DeadlineBound ==
    (waitKind = "ready" /\ pc \in WsrPcs \cup {"create_report", "rb_after_wait"}) =>
        /\ polls <= Ceil(deadline - start, poll)
        /\ pc = "wsr_poll" => now < deadline
        /\ TimedOut =>
            /\ ready = "False"
            /\ now >= deadline
            /\ \A i \in 1..Len(polled) :
                    polled[i] \in {"PROVISIONING", "SWITCHOVER_IN_PROGRESS"}
        /\ (WsrReturned /\ ~TimedOut) =>
                polled[Len(polled)] \notin {"PROVISIONING", "SWITCHOVER_IN_PROGRESS"}

\* C6: wait_switch_ready terminates for every provider behaviour, within the
\* bound of C6_DeadlineBound.
C6_Terminates ==
    /\ [] C6_DeadlineBound
    /\ (pc \in WsrPcs) ~> (pc \notin WsrPcs)

C6_Witness ==
    /\ TimedOut
    /\ ready = "False"
    /\ poll = AltPoll
    /\ polls = Ceil(deadline - start, poll)
    /\ (deadline - start) % poll # 0

\* C7: wait_switch_ready issues no provider call other than describe: from its
\* entry to its return, timeout or interruption the list of mutating calls
\* the tool has issued stays as it was.
C7_ReadOnlyWait ==
    [][(pc \in WsrPcs \cup {"wsr_enter"}) => (calls' = calls)]_vars

C7_Witness ==
    /\ pc = "aborted"
    /\ waitKind = "ready"
    /\ polls >= 1
    /\ calls = << "create_db_snapshot", "create_blue_green_deployment" >>

\* C8: the transition lines wait_switch_ready logs are the polled statuses
\* with consecutive repeats collapsed.
C8_TransitionLog ==
    waitKind = "ready" => TextsOf("status_elapsed") = Collapse(StatusesPolled)

C8_Witness ==
    /\ WsrReturned
    /\ ready = "True"
    /\ polled = << "PROVISIONING", "PROVISIONING", "SWITCH_READY" >>
    /\ TextsOf("status_elapsed") = << "PROVISIONING", "SWITCH_READY" >>

\* number of printed lines equal to l
CountLine(l) == Len(SelectSeq(out, LAMBDA x : x = l))

\* the snapshot answers that carried a status, in polling order
SnapPolled == SelectSeq(polled, LAMBDA r : r \in SnapAnswers)

RECURSIVE PctChanges(_, _)
\* the answers of s whose percentage differs from the one before (prev at first)
PctChanges(s, prev) ==
    IF s = << >> THEN << >>
    ELSE (IF s[1][2] # prev THEN << s[1] >> ELSE << >>)
         \o PctChanges(Tail(s), s[1][2])

\* the "<pct>% - <status>" lines printed, as << status, pct >> pairs
ProgressPrinted ==
    LET sel == SelectSeq(out, LAMBDA l : l[1] = "progress")
    IN  [ i \in 1..Len(sel) |-> << sel[i][2], sel[i][3] >> ]

\* the statuses observed by the wait in progress, in polling order
ObservedStatuses ==
    IF waitKind = "snapshot"
    THEN [ i \in 1..Len(SnapPolled) |-> SnapPolled[i][1] ]
    ELSE IF waitKind = "resource"
    THEN SelectSeq(polled, LAMBDA r : r = PRESENT)
    ELSE StatusesPolled

\* the number of progress lines printed by the wait in progress
ProgressCount ==
    Len(TextsOf("status_elapsed")) + Len(TextsOf("status")) + Len(TextsOf("progress"))
    + CountLine(Line("msg", "still present")) + CountLine(Line("msg", "still deleting"))

\* C9 (as claimed): every blocking wait prints a progress line only when the
\* observed status changes, never once per poll while the status is unchanged.
C9_OnlyOnChange ==
    waitKind # "none" => ProgressCount <= Len(Collapse(ObservedStatuses))

\* C9 (amended): only the ready wait prints a line per change of status; the
\* switch wait prints one status line per status read, the record deletion
\* wait prints "still present" for every poll that finds the record, the
\* snapshot wait prints a line per change of the percentage, and the resource
\* deletion wait prints nothing per poll in rds_bg_resize.py and "still
\* deleting" for every poll that finds the resource in rds_bg_downgrade.py.
C9_ProgressLines ==
    /\ waitKind = "ready" =>
            Len(TextsOf("status_elapsed")) = Len(Collapse(StatusesPolled))
    /\ waitKind = "switch" => TextsOf("status") = StatusesPolled
    /\ waitKind = "record" =>
            CountLine(Line("msg", "still present")) = Len(StatusesPolled)
    /\ waitKind = "snapshot" => ProgressPrinted = PctChanges(SnapPolled, -1)
    /\ waitKind = "resource" =>
            CountLine(Line("msg", "still deleting"))
                = IF script = "downgrade" THEN Len(ObservedStatuses) ELSE 0

C9_Witness ==
    /\ waitKind = "switch"
    /\ pc = "sw_sleep"
    /\ polled = << "SWITCHOVER_IN_PROGRESS", "SWITCHOVER_IN_PROGRESS" >>
    /\ TextsOf("status") = << "SWITCHOVER_IN_PROGRESS", "SWITCHOVER_IN_PROGRESS" >>

\* C10: for a sample with utilization <= 40 and free memory >= 1 GiB and (no
\* connections, or not (utilization > 30 and free memory < 2 GiB)) the Health
\* Gate of rds_bg_resize.py passes; it fails whenever utilization > 40 or free
\* memory < 1 GiB or the combined condition holds with connections.
C10_HealthGate ==
    (/\ script = "resize"
     /\ pc \in {"gate", "finish"}
     /\ metrics.cpu # None
     /\ metrics.free_mem # None) =>
        LET cpu == metrics.cpu[1]
            mem == metrics.free_mem[1]
            connected == metrics.conns \notin {None, Some(0)}
            combined == cpu > 30 /\ mem < 2 * 1024
        IN  /\ (cpu <= 40 /\ mem >= 1024 /\ (~connected \/ ~combined)) => ok = "True"
            /\ (cpu > 40 \/ mem < 1024 \/ (combined /\ connected)) => ok = "False"

C10_Witness ==
    /\ script = "resize"
    /\ pc = "gate"
    /\ metrics = [ cpu |-> Some(40), free_mem |-> Some(1024), conns |-> Some(0) ]
    /\ ok = "True"

\* the lines of kind k printed by the call most recently entered
LinesOf(k) == SelectSeq(out, LAMBDA l : l[1] = k)

\* C11: absence never blocks by itself: when a metric of the sample is absent
\* and every metric that is present is within its thresholds (utilization
\* <= 40, free memory >= 1 GiB, combined condition false on present values),
\* the Health Gate of rds_bg_resize.py passes.
C11_AbsenceNeverBlocks ==
    (/\ script = "resize"
     /\ pc \in {"gate", "finish"}
     /\ None \in {metrics.cpu, metrics.free_mem, metrics.conns}) =>
        LET cpuOk == metrics.cpu = None \/ metrics.cpu[1] <= 40
            memOk == metrics.free_mem = None \/ metrics.free_mem[1] >= 1024
            combined == /\ metrics.conns \notin {None, Some(0)}
                        /\ metrics.cpu # None /\ metrics.cpu[1] > 30
                        /\ metrics.free_mem # None /\ metrics.free_mem[1] < 2 * 1024
        IN  (cpuOk /\ memOk /\ ~combined) => ok = "True"

\* check_target_class_suitability has returned for two classes of the table
ProjectorReturned ==
    /\ pc = "suitability_returned"
    /\ current_class \in DOMAIN INSTANCE_SPECS
    /\ target_class \in DOMAIN INSTANCE_SPECS

\* projected_cpu = cpu * current_vcpu / target_vcpu exceeds limit
ArgProjectedCpuOver(limit) ==
    OrZero(metrics.cpu) * INSTANCE_SPECS[current_class][1]
        > limit * INSTANCE_SPECS[target_class][1]

\* projected_mem = free_mem_gib + (target_mem_gib - current_mem_gib), in MiB
ArgProjectedMem ==
    OrZero(metrics.free_mem)
        + (INSTANCE_SPECS[target_class][2] - INSTANCE_SPECS[current_class][2]) * 1024

\* critical: projected_cpu > 80 or projected_mem < 0.5 GiB
ArgCritical == ArgProjectedCpuOver(80) \/ ArgProjectedMem < 512

\* past a warning threshold: projected_cpu > 40 or projected_mem < 1.0 GiB
ArgPastWarning == ArgProjectedCpuOver(40) \/ ArgProjectedMem < 1024

\* the target has fewer vCPUs or less memory than the current class
ArgDowngrade ==
    \/ INSTANCE_SPECS[target_class][1] < INSTANCE_SPECS[current_class][1]
    \/ INSTANCE_SPECS[target_class][2] < INSTANCE_SPECS[current_class][2]

\* C12 (as claimed): the projector returns false iff the change is critical,
\* else reports a warning iff projected_cpu > 40 or projected_mem < 1.0, else
\* reports none, for upgrades and downgrades alike.
C12_AnyDirection ==
    ProjectorReturned =>
        /\ ok = "False" <=> ArgCritical
        /\ LinesOf("issue") # << >> <=> ArgCritical
        /\ LinesOf("warning") # << >> <=> (~ArgCritical /\ ArgPastWarning)

\* C12 (amended): the projector returns false iff the change is critical
\* (projected_cpu > 80 or projected_mem < 0.5); else it reports a warning iff
\* the change is a downgrade and projected_cpu > 40 or projected_mem < 1.0;
\* else (in particular for every non-critical upgrade) it reports the target
\* as suitable with no warning.
C12_Classification ==
    ProjectorReturned =>
        /\ ok = "False" <=> ArgCritical
        /\ LinesOf("issue") # << >> <=> ArgCritical
        /\ LinesOf("warning") # << >> <=>
                (~ArgCritical /\ ArgPastWarning /\ ArgDowngrade)
        /\ ~ArgCritical => out[Len(out)] = Line("msg", "Target appears suitable")

C12_Witness ==
    /\ pc = "suitability_returned"
    /\ current_class = "db.t3.small"
    /\ target_class = "db.t3.micro"
    /\ metrics = [ cpu |-> Some(41), free_mem |-> Some(2048), conns |-> Some(5) ]
    /\ ok = "True"
    /\ out = << Line("warning", "cpu"), Line("msg", "Target appears suitable") >>

\* C13: for two classes of the table with target_vcpu >= current_vcpu and
\* target_mem >= current_mem and a sample that is not critical as it stands
\* (cpu <= 80, free memory >= 0.5 GiB), the projector reports no critical
\* issue and returns true.
C13_UpgradeNeverCritical ==
    (/\ ProjectorReturned
     /\ INSTANCE_SPECS[target_class][1] >= INSTANCE_SPECS[current_class][1]
     /\ INSTANCE_SPECS[target_class][2] >= INSTANCE_SPECS[current_class][2]
     /\ OrZero(metrics.cpu) <= 80
     /\ OrZero(metrics.free_mem) >= 512) =>
        /\ ok = "True"
        /\ LinesOf("issue") = << >>

C13_Witness ==
    /\ pc = "suitability_returned"
    /\ current_class = "db.t3.micro"
    /\ target_class = "db.r5.24xlarge"
    /\ metrics = [ cpu |-> Some(41), free_mem |-> Some(1023), conns |-> Some(5) ]
    /\ ok = "True"
    /\ LinesOf("issue") = << >>

\* C14: when the current class or the target class is not in the table, the
\* projector makes no projection (no issue, no warning) and returns true,
\* whatever the sample.
C14_UnknownClassPermitted ==
    (/\ pc = "suitability_returned"
     /\ \/ current_class \notin DOMAIN INSTANCE_SPECS
        \/ target_class \notin DOMAIN INSTANCE_SPECS) =>
        /\ ok = "True"
        /\ out = << Line("msg", "specs not in database") >>

C14_Witness ==
    /\ pc = "suitability_returned"
    /\ current_class = "db.t3.large"
    /\ target_class = UnlistedClass
    /\ metrics = [ cpu |-> Some(81), free_mem |-> Some(511), conns |-> Some(5) ]
    /\ ok = "True"

\* the positions of step x in the trail of the menu action
StepsAt(x) == { i \in 1..Len(trail) : trail[i] = x }

\* some step of X was executed before position i of the trail
Earlier(X, i) == \E j \in 1..(i - 1) : trail[j] \in X

\* C15: in every flow, the cut-over command is issued only after the Health
\* Gate was evaluated in that flow and passed or was overridden with 'yes'.
C15_SwitchGated ==
    \A i \in StepsAt("switch_over") : Earlier({"gate_passed", "gate_overridden"}, i)

\* the verdict the Suitability Projector step left as the last step
LastStep == IF trail = << >> THEN "none" ELSE trail[Len(trail)]

\* C16: create_bg runs only after the admission gate allowed it: in the create
\* flow the Health Gate passed (no override) and the projector was not blocked;
\* in rollback the Health Gate passed or was overridden.  The operator is
\* asked about the projector only after a critical issue, a warning never
\* blocks, and after a blocked gate nothing else runs and no provider
\* mutation has been issued.
C16_CreateAdmitted ==
    /\ \A i \in StepsAt("create_bg") :
        /\ flow \in {"create", "rollback"}
        /\ flow = "create" =>
            /\ Earlier({"gate_passed"}, i)
            /\ ~Earlier({"gate_overridden", "gate_blocked", "unsuitable_blocked"}, i)
        /\ flow = "rollback" => Earlier({"gate_passed", "gate_overridden"}, i)
    /\ \A i \in StepsAt("create_snapshot") :
        flow = "create" => /\ Earlier({"gate_passed"}, i)
                           /\ ~Earlier({"unsuitable_blocked"}, i)
    /\ LastStep \in {"unsuitable_overridden", "unsuitable_blocked"} =>
            LinesOf("issue") # << >>
    /\ (LastStep = "suitable" /\ pc # "aborted") => pc = "snapshot_enter"
    /\ (StepsAt("gate_blocked") \cup StepsAt("unsuitable_blocked")) # {} =>
        /\ LastStep \in {"gate_blocked", "unsuitable_blocked"}
        /\ calls = << >>
        /\ pc \in {"pause", "menu", "aborted", "exited"}

\* a critical projection overridden with 'yes', then the deployment created
C16_Witness ==
    /\ script = "resize"
    /\ flow = "create"
    /\ StepsAt("gate_passed") # {}
    /\ StepsAt("unsuitable_overridden") # {}
    /\ LastStep = "create_bg"
    /\ calls = << "create_db_snapshot", "create_blue_green_deployment" >>

\* a warning of the projector: no prompt, the flow goes on to the snapshot
C16_MarginalProceeds ==
    /\ LastStep = "suitable"
    /\ LinesOf("warning") # << >>
    /\ pc = "snapshot_enter"

\* the positions of the suffixes the identifier ends with
SuffixHits == { k \in DOMAIN OLD_RESOURCE_SUFFIXES :
                    EndsWith(identifier, OLD_RESOURCE_SUFFIXES[k]) }

\* the least number of a non-empty set of numbers
Least(S) == CHOOSE k \in S : \A j \in S : k <= j

\* the base is the identifier without the first suffix it ends with
StrippedOnce ==
    IF SuffixHits = {} THEN base_identifier = identifier
    ELSE base_identifier \o OLD_RESOURCE_SUFFIXES[Least(SuffixHits)] = identifier

\* C17: in both scripts the base identifier of a rollback is the identifier
\* with the first suffix of the list that it ends with removed once, and the
\* identifier itself when it ends with none; "orders-old1" gives "orders".
C17_SuffixStripped ==
    pc = "strip_returned" =>
        /\ StrippedOnce
        /\ identifier = Root \o SufOld1 => base_identifier = Root
        /\ identifier = Root => base_identifier = Root

\* C17, rds_bg_resize.py only
C17_ResizeStrips ==
    (pc = "strip_returned" /\ script = "resize") => StrippedOnce

\* the resources the search can see, instances first
Visible ==
    (IF "instances" \in listing.failed THEN << >> ELSE listing.insts)
    \o (IF "clusters" \in listing.failed THEN << >> ELSE listing.clus)

\* the positions of the suffixes for which base + suffix is visible
SuffixesPresent ==
    { k \in DOMAIN OLD_RESOURCE_SUFFIXES :
        \E i \in 1..Len(Visible) :
            Visible[i].id = base_identifier \o OLD_RESOURCE_SUFFIXES[k] }

\* C18: find_old_resource_like returns the visible resource whose suffix comes
\* first in the list of suffixes, whatever the order of the listing, and
\* nothing when no resource named base + suffix is visible.
C18_SuffixPriority ==
    pc = "find_returned" =>
        IF SuffixesPresent = {} THEN old = NoOld
        ELSE /\ old.id = base_identifier \o OLD_RESOURCE_SUFFIXES[Least(SuffixesPresent)]
             /\ \E i \in 1..Len(Visible) :
                    Visible[i].id = old.id /\ Visible[i].class = old.class

\* the lines rollback prints about the snapshot when no old copy was found
SnapshotHints ==
    { << Line("msg", "Restore from snapshot manually") >>,
      << Line("msg", "No snapshot found") >> }

\* the provider calls that restore a resource from a snapshot
RestoreCalls ==
    { "restore_db_instance_from_db_snapshot", "restore_db_cluster_from_snapshot",
      "restore_db_instance_to_point_in_time", "restore_db_cluster_to_point_in_time" }

\* C19: no flow ever issues a restore; when rollback finds no old copy with a
\* known class it issues no provider mutation at all, sets no target class,
\* prints only the snapshot hint (the latest snapshot, or that there is none)
\* and returns to the menu's pause.
C19_NoAutoRestore ==
    /\ \A i \in 1..Len(calls) : calls[i] \notin RestoreCalls
    /\ StepsAt("old_missing") # {} =>
        /\ flow = "rollback"
        /\ ~OldFound(old)
        /\ LastStep = "old_missing"
        /\ calls = << >>
        /\ target_class = "none"
        /\ out \in SnapshotHints
        /\ pc \in {"pause", "menu", "aborted", "exited"}

\* an old copy is listed but its class is unknown, and a snapshot exists
C19_Witness ==
    /\ flow = "rollback"
    /\ LastStep = "old_missing"
    /\ old # NoOld
    /\ old.class = "none"
    /\ out = << Line("msg", "Restore from snapshot manually") >>
    /\ calls = << >>
    /\ pc = "pause"

\* nothing named like an old copy is visible, in both scripts' rollback
C19_NothingListed ==
    /\ flow = "rollback"
    /\ LastStep = "old_missing"
    /\ old = NoOld
    /\ pc = "pause"

\* the rollback found an old copy with a known class
RollbackFound == flow = "rollback" /\ StepsAt("old_found") # {}

\* the steps of a rollback at which the old copy that was found is still known
RollbackPending ==
    { "prechecks", "gate", "create_bg", "wsr_enter", "wsr_test", "wsr_poll",
      "wsr_sleep", "rb_after_wait" }

\* C20: once rollback has found an old copy with a known class, the checks
\* probe the base identifier, the deployment is created after the Health Gate
\* with the base identifier as its source (not the old copy) and the old
\* copy's class as its target, the wait follows the creation, the cut-over
\* follows a wait that returned true, and after a wait that returned false
\* the action is over with the creation as its only provider mutation.
C20_ReverseDeployment ==
    RollbackFound =>
        /\ pc \in RollbackPending => OldFound(old)
        /\ old # NoOld => /\ target_class = old.class
                          /\ old.id # base_identifier
                          /\ NamedLikeOld(old.id, base_identifier)
        /\ script = "resize" =>
                base_identifier = StripFirst(identifier, OLD_RESOURCE_SUFFIXES)
        /\ StepsAt("prechecks") # {} => probe = base_identifier
        /\ \A i \in StepsAt("create_bg") :
                /\ Earlier({"prechecks"}, i)
                /\ Earlier({"gate_passed", "gate_overridden"}, i)
                /\ source = base_identifier
                /\ target_class \in ListedClasses \ {"none"}
        /\ \A i \in StepsAt("wait_switch_ready") : Earlier({"create_bg"}, i)
        /\ \A i \in StepsAt("switch_over") :
                /\ Earlier({"wait_switch_ready"}, i)
                /\ ready = "True"
        /\ ready = "False" =>
                /\ StepsAt("switch_over") = {}
                /\ calls = << "create_blue_green_deployment" >>
                /\ pc \in {"rb_after_wait", "pause", "menu", "aborted", "exited"}

\* rds_bg_resize.py, rollback selected on "orders-old1": the reverse
\* deployment was created from "orders" and switched over after a ready wait
C20_Witness ==
    /\ RollbackFound
    /\ script = "resize"
    /\ identifier = Root \o SufOld1
    /\ source = Root
    /\ ready = "True"
    /\ LastStep = "switch_over"
    /\ calls = << "create_blue_green_deployment", "switchover_blue_green_deployment" >>

\* the wait returned false: the rollback ends at the pause, the deployment
\* is left as it is
C20_NotReadyEnds ==
    /\ RollbackFound
    /\ ready = "False"
    /\ pc = "pause"
    /\ out = << Line("msg", "Reverse Blue/Green not ready") >>
    /\ calls = << "create_blue_green_deployment" >>

\* the old copy is still known while the reverse deployment is awaited
C20_TargetIsOldClass ==
    /\ RollbackFound
    /\ pc = "wsr_poll"
    /\ OldFound(old)
    /\ source = base_identifier
    /\ target_class = "db.t3.large"

\* the snapshots the lookup was answered with, instance snapshots first
SnapshotsListed ==
    (IF "instances" \in snaps.failed THEN << >> ELSE snaps.insts)
    \o (IF "clusters" \in snaps.failed THEN << >> ELSE snaps.clus)

\* those of them that carry the tool's prefix for the identifier and have a
\* creation time
PreChangeSnapshots ==
    { i \in 1..Len(SnapshotsListed) :
        /\ StartsWith(SnapshotsListed[i].id, PrePrefix(script, identifier))
        /\ SnapshotsListed[i].time # None }

\* C21: the snapshot lookup returns the id of a listed instance or cluster
\* snapshot that carries the tool's prefix for the identifier and has the
\* greatest creation time among those, and None exactly when no listed
\* snapshot with that prefix has a creation time.
C21_LatestSnapshot ==
    pc = "latest_returned" =>
        IF PreChangeSnapshots = {} THEN latest = NoId
        ELSE \E i \in PreChangeSnapshots :
                /\ latest = SnapshotsListed[i].id
                /\ \A j \in PreChangeSnapshots :
                        SnapshotsListed[j].time[1] <= SnapshotsListed[i].time[1]

\* an instance snapshot and a newer cluster snapshot of the tool, and a
\* snapshot of the tool without creation time: the cluster snapshot is returned
C21_Witness ==
    /\ pc = "latest_returned"
    /\ script = "resize"
    /\ identifier = Root
    /\ snaps.failed = {}
    /\ snaps.insts = << [id |-> Root \o TagResize \o << "2" >>, time |-> None],
                        [id |-> Root \o TagResize \o << "1" >>, time |-> Some(1)] >>
    /\ snaps.clus = << [id |-> Root \o TagResize \o << "2" >>, time |-> Some(2)] >>
    /\ latest = Root \o TagResize \o << "2" >>

\* only snapshots of the other script and of another resource are listed
C21_NoneOfTheTool ==
    /\ pc = "latest_returned"
    /\ script = "downgrade"
    /\ identifier = Root
    /\ snaps.failed = {}
    /\ Len(snaps.insts) = 2
    /\ \A i \in 1..2 : snaps.insts[i].time # None
    /\ latest = NoId

\* how many times provider call c was issued by the menu action
Issued(c) == Cardinality({ i \in 1..Len(calls) : calls[i] = c })

\* the menu action is over without an exception and without an interrupt
ReturnedToMenu == pc \in {"pause", "menu", "exited"}

\* C22: delete_bg_deployment_record issues the delete command exactly once;
\* while every read returned the record, in whatever status, it keeps
\* polling, and it has returned only if its last read reported the record
\* as not found.
C22_RecordGoneBeforeReturn ==
    waitKind = "record" =>
        /\ Issued("delete_blue_green_deployment") = 1
        /\ \A i \in 1..(Len(polled) - 1) : polled[i] \in Statuses
        /\ ReturnedToMenu =>
                /\ polled # << >>
                /\ polled[Len(polled)] = NOT_FOUND
                /\ out[Len(out)] = Line("msg", "Deleted")
        /\ (polled # << >> /\ polled[Len(polled)] \in Statuses) =>
                pc \in {"dr_sleep", "dr_poll", "aborted"}
        /\ (polled = << >> /\ raised = NoException) => pc = "dr_poll"

\* the record was read as DELETED and as SWITCHOVER_COMPLETED before the
\* read that did not find it: only that read ended the wait
C22_Witness ==
    /\ waitKind = "record"
    /\ pc = "pause"
    /\ polled = << "DELETED", "SWITCHOVER_COMPLETED", NOT_FOUND >>
    /\ calls = << "delete_blue_green_deployment" >>

\* the members of the selected cluster whose deletion has been attempted
MembersAttempted ==
    member_ids - members
    + (IF pc \in {"wd_poll", "wd_sleep"} /\ wtarget = "member" THEN 1 ELSE 0)

\* C23: for a selected cluster, one delete_db_instance is issued per member,
\* whether or not earlier members failed, and delete_db_cluster is issued once,
\* after the delete of the last member, before the action returns; for a
\* selected instance the only deletion issued is that of the instance.
C23_MembersBeforeGroup ==
    /\ rtype = "cluster" =>
        /\ member_ids = -1 => calls = << >>
        /\ member_ids >= 0 =>
            /\ pc # "aborted" => Issued("delete_db_instance") = MembersAttempted
            /\ Cardinality(StepsAt("member_failed")) <= Issued("delete_db_instance")
            /\ \A i \in 1..Len(calls) :
                    calls[i] = "delete_db_cluster" <=> i = member_ids + 1
            /\ ReturnedToMenu => Issued("delete_db_cluster") = 1
    /\ rtype = "instance" =>
        /\ calls \in { << >>, << "delete_db_instance" >> }
        /\ calls = << >> => pc \in {"do_instance", "aborted"}

\* both members of the cluster failed, and the cluster's deletion was issued
\* after the two attempts
C23_Witness ==
    /\ rtype = "cluster"
    /\ member_ids = 2
    /\ Cardinality(StepsAt("member_failed")) = 2
    /\ calls = << "delete_db_instance", "delete_db_instance", "delete_db_cluster" >>
    /\ wtarget = "cluster"
    /\ pc = "wd_poll"

\* the resource wait_deleted has to see absent for the selection
SelectedTarget == IF rtype = "instance" THEN "selected" ELSE "cluster"

\* the deletion wait of the selected resource ended with a read of not-found
AbsenceConfirmed ==
    /\ waitKind = "resource"
    /\ wtarget = SelectedTarget
    /\ polled # << >>
    /\ polled[Len(polled)] = NOT_FOUND

\* C24: once a resource was selected for deletion, delete_old_resource has
\* returned to the menu only after the provider reported the selected
\* instance or cluster as not found.
C24_ReturnsAfterAbsence ==
    (rtype # "none" /\ ReturnedToMenu) => AbsenceConfirmed

\* C24 for a selected instance
C24_InstanceReturnsAfterAbsence ==
    (rtype = "instance" /\ ReturnedToMenu) => AbsenceConfirmed

\* a selected cluster whose deletion the provider rejected: the action is
\* back at the pause, the cluster was never reported as not found
C24_ClusterStillThere ==
    /\ rtype = "cluster"
    /\ pc = "pause"
    /\ calls = << "delete_db_cluster" >>
    /\ out = << Line("msg", "Error deleting cluster") >>
    /\ raised = NoException
    /\ ~AbsenceConfirmed

\* the answers of the group lookup that say the identifier names no group
GroupNotFound == { "DBClusterNotFoundFault", "empty" }

\* is_cluster with the fallback allowed after the answers of F
ResolverContract(F) ==
    pc = "is_cluster_returned" =>
        /\ resolved.asked[1] = "clusters"
        /\ "instances" \in { resolved.asked[i] : i \in DOMAIN resolved.asked } =>
                lookup.clu \in F
        /\ (lookup.clu = "DBClusterNotFoundFault" /\ lookup.inst = "DBInstanceNotFound") =>
                /\ resolved.outcome = "exit"
                /\ out = << Line("msg", "Identifier not found") >>
        /\ resolved.outcome = "returned" =>
                \/ resolved.is_clu = "True" /\ lookup.clu = "found"
                \/ resolved.is_clu = "False" /\ lookup.inst = "found"
        /\ lookup.clu = "found" =>
                /\ resolved.outcome = "returned"
                /\ resolved.is_clu = "True"
                /\ resolved.asked = << "clusters" >>

\* C25: is_cluster asks for the group first and asks for the single node only
\* when the group lookup found nothing; not-found on both ends the process
\* with a message; what it returns is the descriptor of a lookup that found
\* the identifier; a group that exists is returned whatever the node lookup
\* would say.
C25_GroupFirst == ResolverContract(GroupNotFound)

\* C25 with InvalidDBClusterStateFault counted as "found nothing"
C25_FallbackCodes == ResolverContract(GroupNotFound \cup {"InvalidDBClusterStateFault"})

\* the group lookup failed with InvalidDBClusterStateFault, the node lookup
\* found nothing: the identifier is reported as not found
C25_InvalidStateNotFound ==
    /\ pc = "is_cluster_returned"
    /\ lookup = [clu |-> "InvalidDBClusterStateFault", inst |-> "DBInstanceNotFound"]
    /\ resolved.outcome = "exit"

\* the most recent describe call of the wait in progress raised a ClientError
\* with a code other than not-found
WaitSawProviderError == polled # << >> /\ polled[Len(polled)] = PROVIDER_ERROR

\* a listing call of the rollback's lookups raised a ClientError
LookupSawProviderError == listing.failed # {} \/ snaps.failed # {}

\* the deletion of a cluster member raised a ClientError
MemberSawProviderError == StepsAt("member_failed") # {}

\* the process ended with the provider's error
ProviderErrorRaised == pc = "crashed" /\ raised[1] = "ClientError"

\* C26: whenever a provider call of a wait, of the old-resource deletion or of
\* the rollback's lookups failed with an error other than not-found, the
\* error has propagated: the flow has ended with it and nothing ran after it.
C26_ErrorsPropagate ==
    (WaitSawProviderError \/ LookupSawProviderError \/ MemberSawProviderError) =>
        ProviderErrorRaised

\* C26 for the ready wait, the switch wait, the record deletion wait, the
\* snapshot wait and the deletion wait of a selected instance
C26_WaitsPropagate ==
    (WaitSawProviderError /\ (waitKind = "resource" => wtarget = "selected")) =>
        ProviderErrorRaised

\* the listing of the instances failed, an old copy was found among the
\* clusters, and the rollback goes on to its pre-checks
C26_MaskedLookup ==
    /\ flow = "rollback"
    /\ "instances" \in listing.failed
    /\ old.type = "cluster"
    /\ pc = "prechecks"
    /\ raised = NoException

\* both snapshot listings failed and the rollback reports that the tool
\* made no snapshot
C26_MaskedSnapshotLookup ==
    /\ flow = "rollback"
    /\ snaps.failed = {"instances", "clusters"}
    /\ out = << Line("msg", "No snapshot found") >>
    /\ pc = "pause"
    /\ raised = NoException

\* the provider rejected create_blue_green_deployment, as it does for a
\* source that already has a deployment
CreateRejected == raised = << "ClientError", "create_blue_green_deployment" >>

\* C27: after the provider rejected the creation, create_bg has returned no
\* deployment id (nothing waits for or switches a deployment), no deployment
\* was deleted, and the session goes on: the process has not ended and the
\* operator is back at a prompt.
C27_ConflictRecoverable ==
    CreateRejected =>
        /\ StepsAt("wait_switch_ready") = {}
        /\ StepsAt("switch_over") = {}
        /\ Issued("delete_blue_green_deployment") = 0
        /\ pc \in {"pause", "menu"}

\* C27 without the recovery: no id, no deletion, no reuse
C27_NoIdNoDelete ==
    CreateRejected =>
        /\ StepsAt("wait_switch_ready") = {}
        /\ StepsAt("switch_over") = {}
        /\ Issued("delete_blue_green_deployment") = 0
        /\ Issued("switchover_blue_green_deployment") = 0

\* the rejected creation of the create action ended the process
C27_ConflictEndsProcess ==
    /\ CreateRejected
    /\ flow = "create"
    /\ LastStep = "create_bg"
    /\ pc = "crashed"

\* C28: delete_blue_green_deployment is issued only by the menu action that
\* deletes the deployment record, once, as the first provider mutation of
\* that action; the create action, the ready wait, the switch, the rollback
\* and an interrupt never issue it.
C28_NoAutoDelete ==
    /\ Issued("delete_blue_green_deployment") > 0 =>
            /\ flow = "delete_record"
            /\ StepsAt("delete_bg_deployment_record") # {}
            /\ calls = << "delete_blue_green_deployment" >>
    /\ flow # "delete_record" => StepsAt("delete_bg_deployment_record") = {}

\* the create action whose deployment did not become ready: the deployment
\* is left as it is
C28_Witness ==
    /\ flow = "create"
    /\ ready = "False"
    /\ LastStep = "reported_not_ready"
    /\ pc = "pause"
    /\ calls = << "create_db_snapshot", "create_blue_green_deployment" >>

\* a switch that failed: the process ends, the record is not deleted
C28_FailedSwitchKeepsRecord ==
    /\ flow = "switch"
    /\ raised[1] = "RuntimeError"
    /\ calls = << "switchover_blue_green_deployment" >>

\* the positions inside the loop of wait_snapshot_progress
SnapLoopPcs == {"snap_poll", "snap_sleep"}

\* wait_snapshot_progress has returned to its caller
SnapReturned ==
    /\ waitKind = "snapshot"
    /\ pc \notin SnapLoopPcs \cup {"crashed", "aborted"}

\* the answer of the most recent poll of the wait
LastPolled == polled[Len(polled)]

\* C29: the snapshot wait has returned only if its last poll read the status
\* 'available', no earlier poll read it, and after a poll that read another
\* status the wait is still in its loop, whatever percentage was reported.
C29_AvailableEndsWait ==
    waitKind = "snapshot" =>
        /\ \A i \in 1..(Len(polled) - 1) : polled[i][1] # "available"
        /\ SnapReturned => polled # << >> /\ LastPolled[1] = "available"
        /\ (polled # << >> /\ LastPolled[1] = "available") => pc \notin SnapLoopPcs
        /\ (polled # << >> /\ LastPolled[1] \in SnapStatuses \ {"available"}) =>
                pc \in SnapLoopPcs \cup {"aborted"}

\* a snapshot read at 100 percent but still 'creating', then read as
\* 'available' at 0 percent: the second read ended the wait
C29_Witness ==
    /\ SnapReturned
    /\ polled = << << "creating", 100 >>, << "available", 0 >> >>
    /\ now = DEFAULT_POLL_INTERVAL

\* C30: a poll of the snapshot wait that is answered with snapshot-not-found
\* prints nothing, raises nothing and is followed by the sleep and another
\* poll; a poll answered with any other provider error ends the wait with
\* that error.
C30_NotFoundRetried ==
    (waitKind = "snapshot" /\ polled # << >>) =>
        /\ LastPolled[1] = NOT_FOUND =>
                /\ pc \in SnapLoopPcs \cup {"aborted"}
                /\ raised[1] # "ClientError"
        /\ (\A i \in 1..Len(polled) : polled[i][1] = NOT_FOUND) =>
                /\ out = << Line("banner", "Waiting for snapshot to complete") >>
                /\ last_pct = -1
        /\ LastPolled[1] = PROVIDER_ERROR => ProviderErrorRaised
        /\ \A i \in 1..(Len(polled) - 1) : polled[i][1] # PROVIDER_ERROR

\* the first poll did not find the snapshot, the wait slept and the second
\* poll read it as available
C30_Witness ==
    /\ SnapReturned
    /\ polled = << << NOT_FOUND, 0 >>, << "available", 100 >> >>
    /\ now = DEFAULT_POLL_INTERVAL
    /\ raised = NoException

\* another provider error on the second poll ended the process
C30_OtherErrorRaised ==
    /\ waitKind = "snapshot"
    /\ polled = << << NOT_FOUND, 0 >>, << PROVIDER_ERROR, 0 >> >>
    /\ raised = << "ClientError", "describe_db_snapshots" >>

\* the node identifiers get_metric_avg was given
QueriedIds == { queried[i][3] : i \in 1..Len(queried) }

\* the members of the described cluster that are its writer
WriterIds ==
    { desc.members[i].id : i \in { j \in 1..Len(desc.members) :
                                      desc.members[j].writer = "True" } }

\* prechecks has ended, by returning or by raising
PrechecksEnded == pc \in {"prechecks_returned", "crashed"} /\ desc # NoDescription

\* C31: for a cluster, every telemetry query of prechecks is keyed by the id
\* of a member that is the writer, never by the cluster id or the id of a
\* member that is not; a cluster without a writer makes prechecks raise the
\* writer-not-found RuntimeError with no query made and no sample returned.
C31_WriterKeyed ==
    (PrechecksEnded /\ desc.is_clu = "True") =>
        IF WriterIds = {}
        THEN /\ pc = "crashed"
             /\ raised = << "RuntimeError", WriterNotFound(script) >>
             /\ queried = << >>
             /\ metrics = NoMetrics
        ELSE /\ pc = "prechecks_returned"
             /\ Len(queried) = Len(PRECHECK_METRICS)
             /\ Cardinality(QueriedIds) = 1
             /\ QueriedIds \subseteq WriterIds
             /\ GroupId \notin QueriedIds
             /\ \A i \in 1..Len(queried) : queried[i][2] = "DBInstanceIdentifier"

\* a cluster whose first member is a reader and whose second is the writer:
\* all five metrics were asked for the second member
C31_Witness ==
    /\ pc = "prechecks_returned"
    /\ desc.is_clu = "True"
    /\ Len(desc.members) = 2
    /\ desc.members[1] = [id |-> << "n", "1" >>, writer |-> "False"]
    /\ desc.members[2] = [id |-> << "n", "2" >>, writer |-> "True"]
    /\ QueriedIds = { << "n", "2" >> }
    /\ Len(queried) = 5

\* a cluster of readers only: the RuntimeError, and no telemetry call
C31_NoWriter ==
    /\ pc = "crashed"
    /\ desc.is_clu = "True"
    /\ Len(desc.members) = 2
    /\ WriterIds = {}
    /\ raised[1] = "RuntimeError"
    /\ queried = << >>

\* the position of a step in the order of the create action
CreateRank(step) ==
    CASE step = "pick_class" -> 0
      [] step = "prechecks" -> 1
      [] step \in {"gate_passed", "gate_blocked"} -> 2
      [] step \in {"suitable", "unsuitable_overridden", "unsuitable_blocked"} -> 3
      [] step = "create_snapshot" -> 4
      [] step = "create_bg" -> 5
      [] step = "wait_switch_ready" -> 6
      [] step \in {"reported_ready", "reported_not_ready"} -> 7
      [] OTHER -> -1

\* the steps of the create action so far are in its order: each step at most
\* once, none executed without the Health Gate, the snapshot and the creation
\* before it (the projector step is skipped when there is no current class)
CreateInOrder ==
    /\ \A i \in 1..Len(trail) : CreateRank(trail[i]) >= 0
    /\ \A i \in 1..(Len(trail) - 1) : CreateRank(trail[i]) < CreateRank(trail[i + 1])
    /\ \A i \in 1..Len(trail) :
        /\ CreateRank(trail[i]) >= 3 => Earlier({"gate_passed"}, i)
        /\ CreateRank(trail[i]) >= 5 => Earlier({"create_snapshot"}, i)
        /\ CreateRank(trail[i]) >= 6 => Earlier({"create_bg"}, i)
    /\ Issued("create_blue_green_deployment") > 0 =>
            /\ calls = << "create_db_snapshot", "create_blue_green_deployment" >>
            /\ StepsAt("create_bg") # {}

\* after the cut-over of a switch action the post-check has run before the
\* action is over, and before the success message where one is printed
PostCheckBeforeCompletion ==
    /\ (pc \in {"finish", "pause", "menu"} /\ StepsAt("switch_over") # {}) =>
            \E i \in StepsAt("post_checks") : Earlier({"switch_over"}, i)
    /\ \A i \in StepsAt("success_message") :
            /\ trail[i - 1] = "post_checks"
            /\ Earlier({"switch_over"}, i - 1)

\* create_bg of the create action is entered from a snapshot wait whose last
\* poll read the snapshot as available
CreateFollowsAvailable ==
    (flow = "create" /\ Len(calls') > Len(calls)
        /\ calls'[Len(calls')] = "create_blue_green_deployment") =>
            /\ waitKind = "snapshot"
            /\ polled # << >>
            /\ polled[Len(polled)][1] = "available"

\* C32: the create action runs Health Gate, projector, snapshot, creation
\* and ready wait in this order; the creation command is issued only from a
\* snapshot wait that read the snapshot as available; and a switch action
\* runs the post-check after the cut-over before it reports completion.
C32_FlowOrder ==
    /\ [](flow = "create" => CreateInOrder)
    /\ [](flow = "switch" => PostCheckBeforeCompletion)
    /\ [][CreateFollowsAvailable]_vars

\* the whole create action of rds_bg_resize.py, every step once
C32_Witness ==
    /\ flow = "create"
    /\ trail = << "pick_class", "prechecks", "gate_passed", "suitable", "create_snapshot",
                  "create_bg", "wait_switch_ready", "reported_ready" >>
    /\ calls = << "create_db_snapshot", "create_blue_green_deployment" >>

\* the switch action of the new flow up to its success message
C32_SwitchCompleted ==
    /\ flow = "switch"
    /\ mode = "new"
    /\ script = "resize"
    /\ trail = << "bg_status", "prechecks", "gate_passed", "switch_over", "verify",
                  "post_checks", "success_message" >>

\* this step issues the cut-over command
SwitchIssuedNow ==
    /\ Len(calls') = Len(calls) + 1
    /\ calls'[Len(calls')] = "switchover_blue_green_deployment"

\* C33: the cut-over command is issued only when the status read last for
\* the deployment, by the menu's status read or by the ready wait of the
\* rollback, is AVAILABLE or SWITCH_READY.
C33_SwitchOnlyWhenReady ==
    [][SwitchIssuedNow => status \in ReadyStatuses]_vars

\* what does hold: the command is issued only for a deployment that was read
\* and found, and in rollback only after a ready wait that returned True,
\* which leaves SWITCHOVER_COMPLETED beside the two ready statuses
C33_SwitchOnlyWhenFound ==
    [][SwitchIssuedNow =>
        /\ status \in Statuses
        /\ flow = "rollback" =>
                /\ ready = "True"
                /\ status \in ReadyStatuses \cup {"SWITCHOVER_COMPLETED"}]_vars

\* resume menu, action 4, on a deployment just read as PROVISIONING: the next
\* step is the cut-over command
C33_SwitchWhileProvisioning ==
    /\ pc = "sw_enter"
    /\ mode = "resume"
    /\ flow = "switch"
    /\ status = "PROVISIONING"
    /\ trail = << "bg_status" >>

\* rollback about to cut over a reverse deployment last read as completed
C33_RollbackSwitchesCompleted ==
    /\ pc = "sw_enter"
    /\ flow = "rollback"
    /\ status = "SWITCHOVER_COMPLETED"

\* the menu actions that work on a deployment
DeploymentFlows == {"switch", "rollback", "show", "delete_record"}

\* the action works on a deployment the operator selected: action 3 of the
\* new flow of rds_bg_resize.py rolls back without selecting one
OnSelectedDeployment ==
    /\ flow \in DeploymentFlows
    /\ ~(script = "resize" /\ mode = "new" /\ flow = "rollback")

\* the menu action has done something: a step or a provider mutation
ActionBegun == trail # << >> \/ calls # << >>

\* the first thing the action did was the status read, and a read that
\* reported not-found was the last thing it did
FreshReadFirst ==
    /\ ActionBegun => (trail # << >> /\ trail[1] = "bg_status")
    /\ (trail = << "bg_status" >> /\ status = NOT_FOUND) =>
            /\ calls = << >>
            /\ pc \in {"menu", "pause", "aborted", "exited"}

\* C34: in both menus every action on a deployment begins with a status
\* read, and after a read that reported not-found the action does nothing
\* more and has issued no provider mutation.
C34_FreshRead ==
    OnSelectedDeployment => FreshReadFirst

\* what does hold: the resume menu, both menus of rds_bg_downgrade.py, and
\* the switch and show actions of rds_bg_resize.py
C34_FreshReadWhereRead ==
    (flow \in DeploymentFlows /\ ReadsStatus(mode, flow, script)) => FreshReadFirst

\* rds_bg_resize.py, cleanup 1: the delete command without any status read
C34_DeleteWithoutRead ==
    /\ script = "resize"
    /\ mode = "new"
    /\ flow = "delete_record"
    /\ trail = << "delete_bg_deployment_record" >>
    /\ calls = << "delete_blue_green_deployment" >>

\* a read that reported not-found in the resume menu: back to the list
C34_NotFoundStops ==
    /\ mode = "resume"
    /\ flow = "delete_record"
    /\ trail = << "bg_status" >>
    /\ status = NOT_FOUND
    /\ pc = "menu"
    /\ calls = << >>

\* the lookup has returned for a resource whose only snapshot is the one
\* create_snapshot took
LookupAfterCreate == pc = "latest_returned" /\ snap_id # NoId

\* C35: in each script, the identifier create_snapshot gives its snapshot of
\* X starts with the prefix the lookup of the rollback fallback searches for
\* X, and when the provider lists only that snapshot the lookup returns it.
C35_SnapshotFound ==
    /\ snap_id # NoId => StartsWith(snap_id, PrePrefix(script, identifier))
    /\ LookupAfterCreate => latest = snap_id

\* rds_bg_downgrade.py: the cluster snapshot of an identifier that ends in
\* -old1 was taken, listed and returned by the lookup
C35_Witness ==
    /\ LookupAfterCreate
    /\ script = "downgrade"
    /\ identifier = Root \o SufOld1
    /\ snaps.clus # << >>
    /\ latest = snap_id
    /\ Len(latest) = Len(identifier) + Len(TagDowngrade) + 3

\* the positions inside the polling loop of switch_over
SwLoopPcs == {"sw_poll", "sw_sleep"}

\* C36: a menu action that has entered switch_over has issued the cut-over
\* command exactly once, whatever statuses were polled since; the command is
\* issued by the entry of switch_over, with no poll made yet, and by no other
\* step.
C36_SwitchIssuedOnce ==
    /\ [](Issued("switchover_blue_green_deployment") =
                Cardinality(StepsAt("switch_over")))
    /\ [](Cardinality(StepsAt("switch_over")) <= 1)
    /\ []((waitKind = "switch" \/ pc \in SwLoopPcs) =>
                Issued("switchover_blue_green_deployment") = 1)
    /\ [][SwitchIssuedNow => (pc = "sw_enter" /\ polls' = 0 /\ polled' = << >>)]_vars

\* three polls that all read SWITCHOVER_IN_PROGRESS, and still one command
C36_Witness ==
    /\ waitKind = "switch"
    /\ polled = << "SWITCHOVER_IN_PROGRESS", "SWITCHOVER_IN_PROGRESS",
                   "SWITCHOVER_IN_PROGRESS" >>
    /\ now = 2 * SWITCH_POLL
    /\ calls = << "switchover_blue_green_deployment" >>

\* the menu actions that may cut over
SwitchingFlows == {"switch", "rollback"}

\* C37: the create action never enters switch_over and never issues the
\* cut-over command, whatever wait_switch_ready returned; the command is
\* issued only in a switch action or in rollback.
C37_CreateNeverSwitches ==
    /\ flow = "create" =>
            /\ Issued("switchover_blue_green_deployment") = 0
            /\ StepsAt("switch_over") = {}
            /\ pc \notin {"sw_enter"} \cup SwLoopPcs
            /\ LastStep \in {"reported_ready", "reported_not_ready"} =>
                    pc \in {"pause", "menu", "aborted", "exited"}
    /\ Issued("switchover_blue_green_deployment") > 0 => flow \in SwitchingFlows

\* the create action of rds_bg_downgrade.py reported a ready deployment and
\* went back to the menu with the snapshot and the creation as its only
\* provider mutations
C37_Witness ==
    /\ flow = "create"
    /\ script = "downgrade"
    /\ ready = "True"
    /\ LastStep = "reported_ready"
    /\ pc = "menu"
    /\ calls = << "create_db_snapshot", "create_blue_green_deployment" >>

\* no poll of the snapshot wait so far read 'available' or got a provider
\* error other than not-found
NeverAvailable ==
    \A i \in 1..Len(polled) :
        polled[i][1] \in (SnapStatuses \ {"available"}) \cup {NOT_FOUND}

\* C38: as long as the polls of the snapshot wait read only statuses other
\* than 'available' or not-found, the wait is still in its loop (unless the
\* operator interrupted it), nothing was raised by it, and the action that
\* called create_snapshot has not gone on: no deployment was created.
C38_NoFailureExit ==
    (waitKind = "snapshot" /\ NeverAvailable) =>
        /\ pc \in SnapLoopPcs \cup {"aborted"}
        /\ raised[1] \notin {"ClientError", "RuntimeError"}
        /\ calls = << "create_db_snapshot" >>
        /\ LastStep = "create_snapshot"

\* the create action after three polls that read failed, not found and
\* failed: asleep before the next poll
C38_Witness ==
    /\ flow = "create"
    /\ waitKind = "snapshot"
    /\ polled = << << "failed", 100 >>, << NOT_FOUND, 0 >>, << "failed", 100 >> >>
    /\ pc = "snap_sleep"
    /\ now = 2 * DEFAULT_POLL_INTERVAL
    /\ raised = NoException

\* print_precheck_summary has returned for the sample in metrics
SummaryReturned == pc = "summary_returned"

\* C39: for every telemetry sample, print_precheck_summary of
\* rds_bg_resize.py and print_precheck_summary of rds_bg_downgrade.py return
\* the same value.
C39_SameHealthGate ==
    SummaryReturned =>
        /\ ok = Bool(print_precheck_summary(metrics, script))
        /\ print_precheck_summary(metrics, "resize")
                = print_precheck_summary(metrics, "downgrade")

\* what does hold: a sample that passes in rds_bg_downgrade.py passes in
\* rds_bg_resize.py, and the two agree on every sample whose free memory is
\* missing or outside [1 GiB, 1.5 GiB)
C39_DowngradeStricter ==
    SummaryReturned =>
        /\ print_precheck_summary(metrics, "downgrade")
                => print_precheck_summary(metrics, "resize")
        /\ (\/ OrZero(metrics.free_mem) < MEMORY_WARNING_GIB * GIB
            \/ OrZero(metrics.free_mem) >= DOWNGRADE_MEMORY_WARNING) =>
                print_precheck_summary(metrics, "resize")
                    = print_precheck_summary(metrics, "downgrade")

\* 30 percent CPU, 1.2 GiB free, no connections: rds_bg_downgrade.py fails
\* the sample that rds_bg_resize.py passes
C39_SampleBetweenLimits ==
    /\ SummaryReturned
    /\ script = "downgrade"
    /\ metrics = [cpu |-> Some(30), free_mem |-> Some(1229), conns |-> Some(0)]
    /\ ok = "False"
    /\ print_precheck_summary(metrics, "resize")

\* this step is the entry of rollback_with_reverse_bg
RollbackInvokedNow == pc = "rb_find" /\ trail' # trail

\* rollback_with_reverse_bg was entered in this menu action
RollbackInvoked == StepsAt("find_old_resource_like") # {}

\* the rollback action read the deployment as ready to switch and has done
\* nothing since
ReadAsNotSwitched ==
    /\ flow = "rollback"
    /\ trail = << "bg_status" >>
    /\ status \in ReadyStatuses

\* C40: on every menu path, rollback_with_reverse_bg is entered only from a
\* state whose freshly read deployment status is neither SWITCH_READY nor
\* AVAILABLE, and an action that read one of these two has not entered it
\* and has issued no provider mutation.
C40_RollbackOnlyAfterSwitch ==
    /\ [][RollbackInvokedNow => status \in Statuses \ ReadyStatuses]_vars
    /\ [](ReadAsNotSwitched =>
            /\ ~RollbackInvoked
            /\ calls = << >>
            /\ pc \in {"pause", "menu", "aborted", "exited"})

\* what does hold: the same on the menu paths that read the status, the
\* resume menu of both scripts and the new flow of rds_bg_downgrade.py
C40_RollbackGuardedWhereRead ==
    /\ [][(RollbackInvokedNow /\ ReadsStatus(mode, flow, script)) =>
                status \in Statuses \ ReadyStatuses]_vars
    /\ [](ReadAsNotSwitched =>
            /\ ~RollbackInvoked
            /\ calls = << >>
            /\ pc \in {"pause", "menu", "aborted", "exited"})

\* rds_bg_resize.py, new flow, action 3: a reverse deployment was created
\* and no status was read in this action
C40_RollbackWithoutRead ==
    /\ script = "resize"
    /\ mode = "new"
    /\ flow = "rollback"
    /\ RollbackInvoked
    /\ StepsAt("bg_status") = {}
    /\ calls = << "create_blue_green_deployment" >>

\* resume menu, action 5, on a deployment read as SWITCH_READY: refused
C40_RefusedWhenReady ==
    /\ ReadAsNotSwitched
    /\ mode = "resume"
    /\ status = "SWITCH_READY"
    /\ pc = "pause"

====
